---------------------------- MODULE Spec2Model ----------------------------
(***************************************************************************)
(* A model of the metric engine of sports-planner-lib:                     *)
(*   - MetricsCalculator.order_deps (metrics/calculate.py)                 *)
(*   - the parametrized metric families (metrics/pdm.py, metrics/zones.py) *)
(*   - the batch evaluation Athlete.update_metrics (athlete.py), the       *)
(*     legacy MetricsCalculator.compute and Activity.get_metric            *)
(*     (db/schemas.py)                                                     *)
(* Each part has its own specification (SpecOrder, SpecFamilies, SpecEval, *)
(* SpecCalc) over the module's variables; a part's actions leave the       *)
(* others alone.                                                           *)
(***************************************************************************)
EXTENDS Integers, Sequences, FiniteSets, TLC

VARIABLES
    \* ---- order_deps ----
    deps,             \* Metric.deps of every definition (a list)
    weak_deps,        \* Metric.weak_deps of every definition (a list)
    desired_metrics,  \* the caller's list, extended in place
    required_metrics, \* the set built by the loop
    i,                \* the loop index
    opc,              \* "idle" | "loop" | "done" | "error"
    requested,        \* the list as it was passed (a copy, for the claims)
    set_order,        \* the order in which required_metrics was iterated
    result,           \* the list order_deps returned
    \* ---- parametrized families ----
    classes,          \* the metaclasses' classes dicts, one per family
    heap,             \* every class object type(...) ever created, per family
    ret,              \* the class the last Family[item] returned
    last_item,        \* the family and item of the last Family[item]
    answered,         \* how it returned: "none" | "stored" | "created"
    \* ---- evaluation ----
    available_columns, \* Activity.available_columns of every activity
    rows,             \* the committed rows of the metrics table
    pc,               \* "idle" | "batch" | "activity" | "aborted"
    recompute,        \* the recompute argument of the running batch
    act,              \* the activity the batch is at
    pos,              \* the position in metrics of the next metric
    existing_metrics, \* the names of activity.metrics when the activity was begun
    new_metrics,      \* the list new_metrics of the activity being evaluated
    outcome,          \* what the loop did with each metric of this activity
    raised,           \* the exception that left update_metrics, or "none"
    last_value,       \* what the last compute() of the activity returned or raised
    read,             \* the last Activity.get_metric call and its result
    calc,             \* the MetricsCalculator under construction
    all_metrics,      \* the global all_metrics of calculate.py
    parsed,           \* the last call of the name resolution and its result
    \* ---- the compute() functions ----
    zones,            \* a ZoneDefinitions/Zones computation: inputs and results
    uss,              \* a UniversalStressScore computation: inputs and result
    curve,            \* a Curve computation: the fits and the result
    meanmaxes,        \* the meanmaxes table and the position of update_db
    frame,            \* the cached records_df of an activity under LNP.compute
    registry          \* the list objects the definitions' deps refer to

ordervars == <<deps, weak_deps, desired_metrics, required_metrics, i, opc,
               requested, set_order, result>>

computevars == <<zones, uss, curve, meanmaxes, frame, registry>>

famvars == <<classes, heap, ret, last_item, answered, all_metrics, parsed,
             computevars>>

evalvars == <<available_columns, rows, pc, recompute, act, pos, existing_metrics,
              new_metrics, outcome, raised, last_value, read, calc>>

vars == <<ordervars, famvars, evalvars>>

(***************************************************************************)
(* Bounds.                                                                 *)
(***************************************************************************)
\* the dependency entries (deps and weak_deps together) of the registry
MaxEdges == 2
\* the length of the list passed to order_deps
MaxRequested == 2
\* the activities of the athlete
NumActivities == 2

\* the metric definitions of the dependency graphs
Defs == {"A", "B", "C"}

(***************************************************************************)
(* Helpers on sequences.                                                   *)
(***************************************************************************)
Range(s) == {s[k] : k \in 1..Len(s)}

SeqsUpTo(S, n) == UNION {[1..k -> S] : k \in 0..n}

\* the permutations of a finite set, as sequences
Perms(S) == {p \in [1..Cardinality(S) -> S] : Range(p) = S}

\* the first index of x in s (x is in s)
IndexOf(s, x) == CHOOSE k \in 1..Len(s) : s[k] = x /\ \A j \in 1..(k-1) : s[j] # x

\* the number of entries of s equal to x
RECURSIVE Count(_, _)
Count(s, x) ==
    IF s = <<>> THEN 0
    ELSE (IF Head(s) = x THEN 1 ELSE 0) + Count(Tail(s), x)

(***************************************************************************)
(* MetricsCalculator.order_deps, calculate.py:116-133.                     *)
(***************************************************************************)
\* metric.deps + metric.weak_deps (calculate.py:124 and :130)
AllDeps(metric) == deps[metric] \o weak_deps[metric]

\* a loop that puts a missing candidate at the front of the list
RECURSIVE InsertMissing(_, _)
InsertMissing(list, cands) ==
    IF cands = <<>> THEN list
    ELSE InsertMissing(IF Head(cands) \in Range(list) THEN list
                       ELSE <<Head(cands)>> \o list,
                       Tail(cands))

\* for _metric in ...: if _metric not in desired_metrics: append
\* (calculate.py:124-126), one candidate after the other
RECURSIVE AppendMissing(_, _)
AppendMissing(list, cands) ==
    IF cands = <<>> THEN list
    ELSE AppendMissing(IF Head(cands) \in Range(list) THEN list
                       ELSE Append(list, Head(cands)),
                       Tail(cands))

\* a loop body that follows the hard dependencies only
LoopBodyHardOnly(list, k) == AppendMissing(list, deps[list[k]])

\* one pass of the while loop's body on the list (calculate.py:122-127)
LoopBody(list, k) == AppendMissing(list, AllDeps(list[k]))

\* the while loop from index k to its end (calculate.py:121-127)
RECURSIVE Worklist(_, _)
Worklist(list, k) ==
    IF k > Len(list) THEN list ELSE Worklist(LoopBody(list, k), k + 1)

\* a dict that stores the hard dependencies only
DepsDictHardOnly(metric) == deps[metric]

\* deps_dict (calculate.py:129-131): the predecessors of a key
DepsDict(metric) == deps[metric] \o weak_deps[metric]

(***************************************************************************)
(* graphlib.TopologicalSorter(deps_dict).static_order(), calculate.py:132. *)
(* keys is the dict's key order; preds(k) the list stored under k.         *)
(***************************************************************************)
\* _node2info's insertion order: add(node, *predecessors) per dict item
RECURSIVE NodeOrder(_, _)
NodeOrder(keys, acc) ==
    IF keys = <<>> THEN acc
    ELSE NodeOrder(Tail(keys),
                   AppendMissing(acc, <<Head(keys)>> \o DepsDict(Head(keys))))

\* npredecessors after every add: len(predecessors) of a key, 0 otherwise
NPred(keys) ==
    [n \in Range(NodeOrder(keys, <<>>)) |->
        IF n \in Range(keys) THEN Len(DepsDict(n)) ELSE 0]

\* pred_info.successors: node once per occurrence of p among its predecessors,
\* the nodes in the dict's key order
RECURSIVE Successors(_, _)
Successors(keys, p) ==
    IF keys = <<>> THEN <<>>
    ELSE [k \in 1..Count(DepsDict(Head(keys)), p) |-> Head(keys)]
         \o Successors(Tail(keys), p)

\* done(*nodes): every successor loses a predecessor and is appended to the
\* ready list when none is left.  st = [npred, ready]
RECURSIVE Release(_, _)
Release(succs, st) ==
    IF succs = <<>> THEN st
    ELSE LET s == Head(succs)
             n == st.npred[s] - 1
         IN Release(Tail(succs),
                    [npred |-> [st.npred EXCEPT ![s] = n],
                     ready |-> IF n = 0 THEN Append(st.ready, s) ELSE st.ready])

RECURSIVE DoneGroup(_, _, _)
DoneGroup(keys, group, st) ==
    IF group = <<>> THEN st
    ELSE DoneGroup(keys, Tail(group), Release(Successors(keys, Head(group)), st))

\* while is_active(): group = get_ready(); yield from group; done(*group)
RECURSIVE Generations(_, _, _, _)
Generations(keys, ready, npred, out) ==
    IF ready = <<>> THEN out
    ELSE LET st == DoneGroup(keys, ready, [npred |-> npred, ready |-> <<>>])
         IN Generations(keys, st.ready, st.npred, out \o ready)

\* a sorter that passes out what it can and never raises
StaticOrderPartial(keys) ==
    LET nodes == NodeOrder(keys, <<>>)
        np    == NPred(keys)
        ready == SelectSeq(nodes, LAMBDA n : np[n] = 0)
    IN [cycle |-> FALSE, order |-> Generations(keys, ready, np, <<>>)]

\* prepare() raises CycleError before the first node is yielded; without a
\* cycle every node is passed out
StaticOrder(keys) ==
    LET nodes == NodeOrder(keys, <<>>)
        np    == NPred(keys)
        ready == SelectSeq(nodes, LAMBDA n : np[n] = 0)
        out   == Generations(keys, ready, np, <<>>)
    IN IF Len(out) < Len(nodes)
       THEN [cycle |-> TRUE, order |-> <<>>]
       ELSE [cycle |-> FALSE, order |-> out]

(***************************************************************************)
(* The evaluation of metrics: the registry the batch run walks, the rows   *)
(* of the metrics table and the results compute() can give.                *)
(***************************************************************************)
\* the activities of the athlete, self.activities
Activities == 1..NumActivities

\* the columns a record table can carry beside the timestamp
SignalColumns == {"heartrate"}

\* Python's None, and the results of compute() by what float() does with
\* them: accepted (a number), TypeError (a dict, tuple, list) or ValueError
\* (a str that is not a number)
None == "None"
FloatValues == {"1.0"}
JsonValues == {"dict"}
StrValues == {"text"}

\* the __name__ of the definitions
Sport == "Sport"
LactateThresholdHR == "LactateThresholdHR"
CV == "CV"
ZoneDefinitionsHR == "ZoneDefinitions[\"heartrate\"]"
ZonesHR == "Zones[\"heartrate\"]"

\* the list order_deps returned to update_metrics, athlete.py:325
metrics == <<Sport, LactateThresholdHR, CV, ZoneDefinitionsHR, ZonesHR>>

MetricNames == {metrics[n] : n \in 1..Len(metrics)}

\* the definitions that are ConfiguredValueMetric (metrics/athlete.py:54,
\* govss.py:149)
CacheIneligible == {LactateThresholdHR, CV}

\* a cache attribute that is True for every definition
cacheAlways(m) == TRUE

\* Metric.cache: True unless the class says otherwise (base.py:48);
\* ConfiguredValueMetric sets it False (metrics/athlete.py:16)
cache(m) == m \notin CacheIneligible

\* Metric.deps of the definitions (metrics/athlete.py:12, activity.py:477,
\* zones.py:25-29 and 95)
HardDeps(m) ==
    CASE m = Sport -> <<>>
      [] m = LactateThresholdHR -> <<Sport>>
      [] m = CV -> <<Sport>>
      [] m = ZoneDefinitionsHR -> <<Sport, LactateThresholdHR>>
      [] m = ZonesHR -> <<ZoneDefinitionsHR>>

\* Metric.weak_deps: [] (base.py:36), which none of the definitions
\* overrides
WeakDeps(m) == <<>>

\* Metric.get_metric(metric) called from the compute() of m, base.py:73-74:
\* the assert fails unless the metric read is declared
MetricGetMetric(m, d) ==
    IF d \in Range(HardDeps(m)) \cup Range(WeakDeps(m))
    THEN "read"
    ELSE "AssertionError"

\* Metric.needed_columns: [] (base.py:50), the family's column for
\* ZoneDefinitions and Zones (zones.py:48, 108)
NeededColumns(m) ==
    IF m \in {ZoneDefinitionsHR, ZonesHR} THEN {"heartrate"} ELSE {}

\* the values the definition's own predicate can take on an activity:
\* RunningMetric.applicable asks for the sport (activity.py:479-493), the
\* others keep Metric._applicable, which returns True (base.py:98-100)
OwnPredicate(m) == IF m = CV THEN BOOLEAN ELSE {TRUE}

\* Metric._has_needed_columns, base.py:89-96
HasNeededColumns(columns, m) == NeededColumns(m) \subseteq columns

\* an applicable() that does not look at the columns
applicableIgnoringColumns(columns, m, own) == own

\* metric_instance.applicable(): Sport and RunningMetric override it
\* (activity.py:263-272, 479-493), the others run base.py:102-109
applicable(columns, m, own) ==
    IF m \in {Sport, CV} THEN own
    ELSE HasNeededColumns(columns, m) /\ own

\* a row of the metrics table, db/schemas.py:108-119
Row(a, m, v, j) == [activity_id |-> a, name |-> m, value |-> v, json_value |-> j]

\* a merge that adds a row beside the one of the same key
MergeAppend(table, row) == table \cup {row}

\* a merge that keeps the row of the same key when there is one
MergeIgnoreDuplicate(table, row) ==
    IF \E r \in table : r.activity_id = row.activity_id /\ r.name = row.name
    THEN table
    ELSE table \cup {row}

\* session.merge(Metric(...)): the row of the same primary key
\* (activity_id, name) is replaced
Merge(table, row) ==
    {r \in table : ~(r.activity_id = row.activity_id /\ r.name = row.name)}
        \cup {row}

\* activity.metrics, the relationship of db/schemas.py:176-186
ActivityMetrics(table, a) == {r \in table : r.activity_id = a}

\* what metric_instance.compute() does: it returns a value or raises
ComputeResults ==
    [kind : {"float"}, v : FloatValues]
        \cup {[kind |-> "none", v |-> None]}
        \cup [kind : {"json"}, v : JsonValues]
        \cup [kind : {"str"}, v : StrValues]
        \cup [kind : {"raise"},
              v : {"TypeError", "ValueError", "KeyError", "RuntimeError"}]

\* the exceptions of the except clauses, athlete.py:376-381
CaughtExceptions == {"TypeError", "ValueError", "KeyError"}

\* athlete.py:374-411 for one result of compute(): the table after the
\* commit, the exception that leaves the function, and the outcome
Evaluate(table, a, m, res) ==
    IF res.kind = "raise" /\ res.v \notin CaughtExceptions
    THEN [rows |-> table, exc |-> res.v, outcome |-> "raised"]
    ELSE LET failed == res.kind = "raise"
             value == IF failed THEN None ELSE res.v
             kind == IF failed THEN "none" ELSE res.kind
             t1 == IF value = None
                   THEN Merge(table, Row(a, m, None, None))
                   ELSE table
         IN CASE kind = "float" ->
                   [rows |-> Merge(t1, Row(a, m, value, None)), exc |-> "none",
                    outcome |-> "computed"]
              [] kind \in {"none", "json"} ->
                   [rows |-> Merge(t1, Row(a, m, None, value)), exc |-> "none",
                    outcome |-> IF failed THEN "failed" ELSE "computed"]
              [] kind = "str" ->
                   [rows |-> table, exc |-> "ValueError", outcome |-> "raised"]

\* the outcomes in which compute() was invoked
Invoked == {"computed", "failed", "raised"}

NoRead ==
    [activity |-> 0, name |-> "none", query |-> FALSE, compute |-> FALSE,
     how |-> "none", value |-> None, invoked |-> FALSE]

NoCalc ==
    [pc |-> "idle", activity |-> 0, k |-> 0, retrieved |-> {},
     recompute_all |-> FALSE, computed |-> <<>>, invoked |-> {},
     exc |-> "none"]

\* compute() has not been invoked
NoValue == [kind |-> "unset", v |-> None]

\* no batch is running and nothing has been evaluated
EvalStart ==
    /\ last_value = NoValue
    /\ rows = {}
    /\ pc = "idle"
    /\ recompute = FALSE
    /\ act = 0
    /\ pos = 0
    /\ existing_metrics = {}
    /\ new_metrics = <<>>
    /\ outcome = [m \in MetricNames |-> "pending"]
    /\ raised = "none"
    /\ read = NoRead
    /\ calc = NoCalc

\* the evaluation part is not used by a specification of another part
EvalIdle == available_columns = [a \in Activities |-> {}] /\ EvalStart

(***************************************************************************)
(* The parametrized families: CurveMeta, MeanMaxMeta (pdm.py) and          *)
(* ZoneDefinitionsMeta, ZonesMeta, TimeInZoneMeta (zones.py).  A class     *)
(* object is [family, item, serial, deps]: serial numbers the objects      *)
(* type(...) created for one family and item, so two objects of one item   *)
(* differ.  st = [classes, heap, obj] threads the dicts through nested     *)
(* Family[item] calls.                                                     *)
(***************************************************************************)
Families == {"Curve", "MeanMax", "ZoneDefinitions", "Zones", "TimeInZone"}

\* the signals, durations and zone labels Family[item] is asked for
Columns == {"power", "heartrate"}
Durations == {60, 300}
ZoneLabels == {"Z1", "Z2"}

Items(f) ==
    CASE f = "Curve" -> Columns
      [] f = "MeanMax" -> Columns \X Durations
      [] f = "ZoneDefinitions" -> Columns
      [] f = "Zones" -> Columns
      [] f = "TimeInZone" -> Columns \X ZoneLabels

\* type(name, (Family,), {...}): a new class object
NewClass(st, f, item, ds) ==
    [family |-> f, item |-> item, deps |-> ds,
     serial |-> 1 + Cardinality({o \in st.heap[f] : o.item = item})]

\* mcs.classes[item] = cls; return cls
Store(st, f, item, cls) ==
    [classes |-> [st.classes EXCEPT ![f] =
                     [x \in DOMAIN st.classes[f] \cup {item} |->
                         IF x = item THEN cls ELSE st.classes[f][x]]],
     heap |-> [st.heap EXCEPT ![f] = st.heap[f] \cup {cls}],
     obj |-> cls,
     how |-> "created"]

\* if item in mcs.classes: return mcs.classes[item]
Hit(st, f, item) == [st EXCEPT !.obj = st.classes[f][item], !.how = "stored"]

\* a __getitem__ without the membership test: a new class on every request
CurveGetItemAlwaysNew(st, item) ==
    Store(st, "Curve", item, NewClass(st, "Curve", item, <<>>))

\* CurveMeta.__getitem__, pdm.py:82-92
CurveGetItem(st, item) ==
    IF item \in DOMAIN st.classes["Curve"] THEN Hit(st, "Curve", item)
    ELSE Store(st, "Curve", item, NewClass(st, "Curve", item, <<>>))

\* MeanMaxMeta.__getitem__, pdm.py:145-163
MeanMaxGetItem(st, item) ==
    IF item \in DOMAIN st.classes["MeanMax"] THEN Hit(st, "MeanMax", item)
    ELSE Store(st, "MeanMax", item, NewClass(st, "MeanMax", item, <<>>))

\* the deps list of ZoneDefinitionsMeta.__getitem__, zones.py:25-29
ZoneDefinitionsDeps(column) ==
    <<"Sport">> \o (IF column = "heartrate" THEN <<"LactateThresholdHR">>
                    ELSE IF column = "power" THEN <<"FTP">> ELSE <<>>)

\* ZoneDefinitionsMeta.__getitem__, zones.py:20-41
ZoneDefinitionsGetItem(st, item) ==
    IF item \in DOMAIN st.classes["ZoneDefinitions"]
    THEN Hit(st, "ZoneDefinitions", item)
    ELSE Store(st, "ZoneDefinitions", item,
               NewClass(st, "ZoneDefinitions", item, ZoneDefinitionsDeps(item)))

\* ZonesMeta.__getitem__, zones.py:85-100: deps is [ZoneDefinitions[column]]
ZonesGetItem(st, item) ==
    IF item \in DOMAIN st.classes["Zones"] THEN Hit(st, "Zones", item)
    ELSE LET st1 == ZoneDefinitionsGetItem(st, item)
         IN Store(st1, "Zones", item, NewClass(st1, "Zones", item, <<st1.obj>>))

\* TimeInZoneMeta.__getitem__, zones.py:132-149: deps is [Zones[column]]
TimeInZoneGetItem(st, item) ==
    IF item \in DOMAIN st.classes["TimeInZone"] THEN Hit(st, "TimeInZone", item)
    ELSE LET st1 == ZonesGetItem(st, item[1])
         IN Store(st1, "TimeInZone", item,
                  NewClass(st1, "TimeInZone", item, <<st1.obj>>))

GetItem(st, f, item) ==
    CASE f = "Curve" -> CurveGetItem(st, item)
      [] f = "MeanMax" -> MeanMaxGetItem(st, item)
      [] f = "ZoneDefinitions" -> ZoneDefinitionsGetItem(st, item)
      [] f = "Zones" -> ZonesGetItem(st, item)
      [] f = "TimeInZone" -> TimeInZoneGetItem(st, item)

NoClass == [family |-> "none"]

\* all_metrics = None, calculate.py:13
NoEnumeration ==
    [computed |-> FALSE, classes |-> {}, instances |-> [f \in Families |-> {}]]

\* nothing has been resolved
NoParse ==
    [call |-> "none", name |-> <<>>, status |-> "none", metric |-> NoClass,
     fields |-> <<>>]

\* no ZoneDefinitions or Zones is being computed
NoZones ==
    [pc |-> "idle", column |-> "none", lthr |-> 0, ftp |-> 0, right |-> TRUE,
     series |-> <<>>, defs |-> [status |-> "none"], times |-> [status |-> "none"]]

\* no UniversalStressScore is being computed
NoStress ==
    [pc |-> "idle", sport |-> "none", table |-> {}, govss |-> NoValue,
     coggan |-> NoValue, result |-> NoValue]

\* no Curve is being computed
NoCurve == [pc |-> "idle", fits |-> <<>>, result |-> [status |-> "none"]]

\* the meanmaxes table is empty and update_db is not running
NoMeanMaxes ==
    [pc |-> "idle", recompute |-> FALSE, todo |-> <<>>, records |-> <<>>,
     table |-> <<>>, staged |-> {}, evaluated |-> {}, calls |-> 0,
     raised |-> "none"]

\* no records_df is under evaluation
NoFrame ==
    [pc |-> "idle", records_df |-> <<>>, imported |-> <<>>, deps |-> "none",
     division |-> "none", result |-> "none"]

\* no definition is being observed
NoRegistry ==
    [pc |-> "idle", lists |-> <<>>, before |-> <<>>, calls |-> 0,
     last |-> "none"]

\* no compute() function is running
ComputeIdle ==
    /\ zones = NoZones
    /\ uss = NoStress
    /\ curve = NoCurve
    /\ meanmaxes = NoMeanMaxes
    /\ frame = NoFrame
    /\ registry = NoRegistry

\* classes = {} in every metaclass (pdm.py:79,142; zones.py:17,82,129)
FamStart ==
    /\ ComputeIdle
    /\ all_metrics = NoEnumeration
    /\ parsed = NoParse
    /\ classes = [f \in Families |-> <<>>]
    /\ heap = [f \in Families |-> {}]
    /\ ret = NoClass
    /\ last_item = <<"none", "none">>
    /\ answered = "none"

\* the registry part is not used by a specification of another part
OrderIdle ==
    /\ deps = [d \in Defs |-> <<>>]
    /\ weak_deps = [d \in Defs |-> <<>>]
    /\ desired_metrics = <<>>
    /\ required_metrics = {}
    /\ i = 0
    /\ opc = "idle"
    /\ requested = <<>>
    /\ set_order = <<>>
    /\ result = <<>>

InitFamilies == FamStart /\ OrderIdle /\ EvalIdle

\* Family[item] is evaluated by some caller
Request(f, item) ==
    LET st == GetItem([classes |-> classes, heap |-> heap, obj |-> NoClass,
                       how |-> "none"], f, item)
    IN /\ answered' = st.how
       /\ classes' = st.classes
       /\ heap' = st.heap
       /\ ret' = st.obj
       /\ last_item' = <<f, item>>
       /\ UNCHANGED <<all_metrics, parsed, computevars, ordervars, evalvars>>

RequestCurve == \E item \in Items("Curve") : Request("Curve", item)
RequestMeanMax == \E item \in Items("MeanMax") : Request("MeanMax", item)
RequestZoneDefinitions ==
    \E item \in Items("ZoneDefinitions") : Request("ZoneDefinitions", item)
RequestZones == \E item \in Items("Zones") : Request("Zones", item)
RequestTimeInZone == \E item \in Items("TimeInZone") : Request("TimeInZone", item)

NextFamilies ==
    \/ RequestCurve
    \/ RequestMeanMax
    \/ RequestZoneDefinitions
    \/ RequestZones
    \/ RequestTimeInZone

SpecFamilies == InitFamilies /\ [][NextFamilies]_vars

\* C5: in every family a request for an item that is already in the family's
\* dict returns the stored class object itself, a stored entry is never
\* replaced or removed, the class returned is the one stored under the item,
\* and no family ever holds two class objects for one item.
C5_MemoizedIdentity ==
    [][/\ \A f \in Families : \A x \in DOMAIN classes[f] :
             /\ x \in DOMAIN classes'[f]
             /\ classes'[f][x] = classes[f][x]
       /\ \A f \in Families : \A x \in Items(f) :
             (last_item'[1] = f /\ last_item'[2] = x) =>
                 /\ x \in DOMAIN classes'[f]
                 /\ ret' = classes'[f][x]
                 /\ x \in DOMAIN classes[f] => ret' = classes[f][x]
       /\ \A f \in Families : \A o \in heap'[f] : o.serial = 1]_vars

\* the same TimeInZone item has been requested again and answered from the dict
C5_Witness ==
    /\ last_item[1] = "TimeInZone"
    /\ answered = "stored"
    /\ ret = classes["TimeInZone"][last_item[2]]
    /\ Cardinality(DOMAIN classes["TimeInZone"]) = 2
    /\ Cardinality(DOMAIN classes["Curve"]) = 2
    /\ Cardinality(DOMAIN classes["MeanMax"]) >= 2

(***************************************************************************)
(* The registry of SpecOrder: every list of at most MaxEdges dependency    *)
(* entries over Defs, each entry hard or weak, in declaration order.       *)
(***************************************************************************)
EdgeSet == [from : Defs, to : Defs, weak : BOOLEAN]

RECURSIVE DepList(_, _, _)
DepList(es, d, w) ==
    IF es = <<>> THEN <<>>
    ELSE (IF Head(es).from = d /\ Head(es).weak = w THEN <<Head(es).to>> ELSE <<>>)
         \o DepList(Tail(es), d, w)

InitOrder ==
    /\ \E es \in SeqsUpTo(EdgeSet, MaxEdges) :
          /\ deps = [d \in Defs |-> DepList(es, d, FALSE)]
          /\ weak_deps = [d \in Defs |-> DepList(es, d, TRUE)]
    /\ desired_metrics = <<>>
    /\ required_metrics = {}
    /\ i = 0
    /\ opc = "idle"
    /\ requested = <<>>
    /\ set_order = <<>>
    /\ result = <<>>
    /\ FamStart
    /\ EvalIdle

\* order_deps(desired_metrics) is entered: calculate.py:117-119
Call(req) ==
    /\ opc = "idle"
    /\ desired_metrics' = req
    /\ requested' = req
    /\ required_metrics' = {}
    /\ i' = 0
    /\ opc' = "loop"
    /\ UNCHANGED <<deps, weak_deps, set_order, result, famvars, evalvars>>

\* one iteration of the while loop: calculate.py:121-127
LoopStep ==
    /\ opc = "loop"
    /\ i < Len(desired_metrics)
    /\ required_metrics' = required_metrics \cup {desired_metrics[i + 1]}
    /\ desired_metrics' = LoopBody(desired_metrics, i + 1)
    /\ i' = i + 1
    /\ UNCHANGED <<deps, weak_deps, opc, requested, set_order, result, famvars, evalvars>>

\* the loop is left, the dict is built from the set and sorted:
\* calculate.py:129-133.  A set of classes iterates in the order of their
\* hashes (their addresses): any order of its members.
TopoSort ==
    /\ opc = "loop"
    /\ i >= Len(desired_metrics)
    /\ \E keys \in Perms(required_metrics) :
          LET r == StaticOrder(keys)
          IN /\ set_order' = keys
             /\ IF r.cycle
                THEN opc' = "error" /\ result' = <<>>
                ELSE opc' = "done" /\ result' = r.order
    /\ UNCHANGED <<deps, weak_deps, desired_metrics, required_metrics, i, requested,
                   famvars, evalvars>>

NextOrder ==
    \/ \E req \in SeqsUpTo(Defs, MaxRequested) : Call(req)
    \/ LoopStep
    \/ TopoSort

SpecOrder == InitOrder /\ [][NextOrder]_vars

(***************************************************************************)
(* The claims about order_deps.                                            *)
(***************************************************************************)
\* the direct dependencies of a definition, hard and weak
Preds(d) == Range(deps[d]) \cup Range(weak_deps[d])

\* the definitions reachable from S (S included) through deps and weak_deps
RECURSIVE Closure(_)
Closure(S) ==
    LET T == S \cup UNION {Preds(d) : d \in S}
    IN IF T = S THEN S ELSE Closure(T)

\* a definition reachable from S lies on a cycle
Cyclic(S) == \E d \in Closure(S) : d \in Closure(Preds(d))

\* no dependency path joins a and b
Unrelated(a, b) == a \notin Closure(Preds(b)) /\ b \notin Closure(Preds(a))

\* C1: over an acyclic graph order_deps returns a list, and in it every hard
\* and every weak dependency of a definition stands at a strictly smaller
\* index than the definition.
C1_DepsBeforeDependents ==
    /\ (opc = "error") => Cyclic(Range(requested))
    /\ (opc = "done") =>
          \A d \in Range(result) : \A p \in Preds(d) :
              /\ p \in Range(result)
              /\ IndexOf(result, p) < IndexOf(result, d)

\* a returned list in which a definition has a hard and a different weak dependency
C1_Witness ==
    /\ opc = "done"
    /\ \E d \in Range(result) :
          /\ deps[d] # <<>>
          /\ weak_deps[d] # <<>>
          /\ deps[d][1] # weak_deps[d][1]

\* C2: the returned list holds exactly the definitions reachable from the
\* requested ones through deps and weak_deps, each once, and order_deps run on
\* the returned list returns the same set of definitions.
C2_ExactClosureOnce ==
    (opc = "done") =>
        /\ Range(result) = Closure(Range(requested))
        /\ Len(result) = Cardinality(Range(result))
        /\ \A keys \in Perms(Range(Worklist(result, 1))) :
              /\ ~StaticOrder(keys).cycle
              /\ Range(StaticOrder(keys).order) = Range(result)

\* a list with a duplicate whose closure holds a dependency of a dependency
C2_Witness ==
    /\ opc = "done"
    /\ Len(requested) = 2
    /\ requested[1] = requested[2]
    /\ Cardinality(Range(result)) = 3

\* C3: when a cycle (a self-dependency included) is reachable from the
\* requested definitions, order_deps ends in CycleError and returns nothing.
C3_CycleIsFatal ==
    (opc \in {"done", "error"} /\ Cyclic(Range(requested))) =>
        (opc = "error" /\ result = <<>>)

\* a CycleError on a cycle that runs through a weak dependency
C3_Witness ==
    /\ opc = "error"
    /\ \E d \in required_metrics : \E e \in Range(weak_deps[d]) :
          e # d /\ d \in Preds(e)

\* C4 (as claimed): two definitions that no dependency path orders come out
\* in the order in which they entered the worklist.
C4_TiesByInsertionOrder ==
    (opc = "done") =>
        \A a \in Range(result) : \A b \in Range(result) :
            (/\ a # b
             /\ Unrelated(a, b)
             /\ IndexOf(desired_metrics, a) < IndexOf(desired_metrics, b))
            => IndexOf(result, a) < IndexOf(result, b)

(***************************************************************************)
(* Athlete.update_metrics and _update_metrics_for_activity,                *)
(* athlete.py:311-417, one action per way through the loop body, and       *)
(* Activity.get_metric, db/schemas.py:188-221.                             *)
(***************************************************************************)
Pending == [m \in MetricNames |-> "pending"]

\* the loop over metric.deps, athlete.py:356-369
MissingDep(m, loaded, new) ==
    \E n \in 1..Len(HardDeps(m)) :
        LET dep == HardDeps(m)[n]
        IN /\ dep \notin loaded
           /\ dep \notin Range(new)
           /\ cache(dep)

\* metric.__name__ in existing_metrics and not recompute, athlete.py:353
AlreadyComputed(m, loaded, rc) == m \in loaded /\ ~rc

InitEval ==
    /\ available_columns \in [Activities -> SUBSET SignalColumns]
    /\ EvalStart
    /\ FamStart
    /\ OrderIdle

\* update_metrics(recompute) is called: athlete.py:311-329
StartBatch(rc) ==
    /\ pc = "idle"
    /\ pc' = "batch"
    /\ recompute' = rc
    /\ act' = NumActivities
    /\ raised' = "none"
    /\ read' = NoRead
    /\ pos' = 0
    /\ existing_metrics' = {}
    /\ new_metrics' = <<>>
    /\ outcome' = Pending
    /\ last_value' = NoValue
    /\ UNCHANGED <<available_columns, rows, calc, ordervars, famvars>>

\* the next activity of reversed(self.activities) is loaded and
\* _update_metrics_for_activity is entered: athlete.py:330-347
BeginActivity ==
    /\ pc = "batch"
    /\ pc' = "activity"
    /\ existing_metrics' = {r.name : r \in ActivityMetrics(rows, act)}
    /\ new_metrics' = <<>>
    /\ pos' = 1
    /\ outcome' = Pending
    /\ last_value' = NoValue
    /\ UNCHANGED <<available_columns, rows, recompute, act, raised, read, calc,
                   ordervars, famvars>>

InLoop == pc = "activity" /\ pos <= Len(metrics)

\* the loop goes on to the next metric without a row being touched
Continue(m, o) ==
    /\ outcome' = [outcome EXCEPT ![m] = o]
    /\ pos' = pos + 1
    /\ UNCHANGED <<available_columns, rows, pc, recompute, act, existing_metrics,
                   new_metrics, raised, last_value, read, calc, ordervars, famvars>>

\* athlete.py:349-352
SkipIneligible ==
    /\ InLoop
    /\ ~cache(metrics[pos])
    /\ Continue(metrics[pos], "ineligible")

\* athlete.py:353-355
SkipCached ==
    /\ InLoop
    /\ cache(metrics[pos])
    /\ AlreadyComputed(metrics[pos], existing_metrics, recompute)
    /\ Continue(metrics[pos], "cached")

\* athlete.py:356-369
SkipMissingDep ==
    /\ InLoop
    /\ cache(metrics[pos])
    /\ ~AlreadyComputed(metrics[pos], existing_metrics, recompute)
    /\ MissingDep(metrics[pos], existing_metrics, new_metrics)
    /\ Continue(metrics[pos], "missing_dep")

\* the loop body reaches metric_instance.applicable(), athlete.py:370-371
Attempted ==
    /\ InLoop
    /\ cache(metrics[pos])
    /\ ~AlreadyComputed(metrics[pos], existing_metrics, recompute)
    /\ ~MissingDep(metrics[pos], existing_metrics, new_metrics)

\* a not applicable metric gets a null row
NotApplicableStoresNull ==
    /\ Attempted
    /\ \E own \in OwnPredicate(metrics[pos]) :
          ~applicable(available_columns[act], metrics[pos], own)
    /\ rows' = Merge(rows, Row(act, metrics[pos], None, None))
    /\ outcome' = [outcome EXCEPT ![metrics[pos]] = "not_applicable"]
    /\ pos' = pos + 1
    /\ UNCHANGED <<available_columns, pc, recompute, act, existing_metrics,
                   new_metrics, raised, last_value, read, calc, ordervars,
                   famvars>>

\* athlete.py:371, 412-413
NotApplicable ==
    /\ Attempted
    /\ \E own \in OwnPredicate(metrics[pos]) :
          ~applicable(available_columns[act], metrics[pos], own)
    /\ Continue(metrics[pos], "not_applicable")

\* athlete.py:371-411: compute() is invoked and its result is stored, or an
\* exception leaves update_metrics
Compute ==
    /\ Attempted
    /\ \E own \in OwnPredicate(metrics[pos]) :
          applicable(available_columns[act], metrics[pos], own)
    /\ new_metrics' = Append(new_metrics, metrics[pos])
    /\ \E res \in ComputeResults :
          LET e == Evaluate(rows, act, metrics[pos], res)
          IN /\ rows' = e.rows
             /\ last_value' = res
             /\ outcome' = [outcome EXCEPT ![metrics[pos]] = e.outcome]
             /\ IF e.exc = "none"
                THEN pos' = pos + 1 /\ UNCHANGED <<pc, raised>>
                ELSE pc' = "aborted" /\ raised' = e.exc /\ UNCHANGED pos
    /\ UNCHANGED <<available_columns, recompute, act, existing_metrics, read, calc,
                   ordervars, famvars>>

\* the loop over metrics is left, athlete.py:414-417, and update_metrics
\* goes on to the next activity or returns
EndActivity ==
    /\ pc = "activity"
    /\ pos > Len(metrics)
    /\ IF act > 1
       THEN pc' = "batch" /\ act' = act - 1 /\ UNCHANGED recompute
       ELSE pc' = "idle" /\ act' = 0 /\ recompute' = FALSE
    /\ pos' = 0
    /\ existing_metrics' = {}
    /\ new_metrics' = <<>>
    /\ outcome' = Pending
    /\ last_value' = NoValue
    /\ UNCHANGED <<available_columns, rows, raised, read, calc, ordervars,
                   famvars>>

\* leaving the session rolls back the rows of the whole batch
PropagateRollback ==
    /\ pc = "aborted"
    /\ pc' = "idle"
    /\ rows' = {}
    /\ recompute' = FALSE
    /\ raised' = "none"
    /\ act' = 0
    /\ pos' = 0
    /\ existing_metrics' = {}
    /\ new_metrics' = <<>>
    /\ outcome' = Pending
    /\ last_value' = NoValue
    /\ UNCHANGED <<available_columns, read, calc, ordervars, famvars>>

\* the exception has left update_metrics (no except clause on its way,
\* athlete.py:327-339): the session is closed and the batch is over
Propagate ==
    /\ pc = "aborted"
    /\ pc' = "idle"
    /\ recompute' = FALSE
    /\ raised' = "none"
    /\ act' = 0
    /\ pos' = 0
    /\ existing_metrics' = {}
    /\ new_metrics' = <<>>
    /\ outcome' = Pending
    /\ last_value' = NoValue
    /\ UNCHANGED <<available_columns, rows, read, calc, ordervars, famvars>>

\* Activity.get_metric(name, compute, query), db/schemas.py:188-221, for
\* the name of a definition (no field path)
GetMetric(table, columns, a, m, q, c, own, res) ==
    LET stored == {r \in ActivityMetrics(table, a) : r.name = m}
        answer(how, v, inv) ==
            [activity |-> a, name |-> m, query |-> q, compute |-> c,
             how |-> how, value |-> v, invoked |-> inv]
    IN IF q /\ stored # {}
       THEN LET r == CHOOSE r \in stored : TRUE
            IN answer("cache",
                      IF r.value # None THEN r.value ELSE r.json_value, FALSE)
       ELSE IF ~c THEN answer("no_compute", None, FALSE)
       ELSE IF ~applicable(columns, m, own)
       THEN answer("not_applicable", None, FALSE)
       ELSE IF res.kind = "raise" THEN answer("raised", None, TRUE)
       ELSE answer("computed", res.v, TRUE)

\* a caller reads a metric of an activity while no batch is running
Read(a, m, q, c) ==
    /\ pc = "idle"
    /\ read = NoRead
    /\ \E own \in OwnPredicate(m) : \E res \in ComputeResults :
          read' = GetMetric(rows, available_columns[a], a, m, q, c, own, res)
    /\ UNCHANGED <<available_columns, rows, pc, recompute, act, pos,
                   existing_metrics, new_metrics, outcome, raised, last_value, calc,
                   ordervars, famvars>>

\* the caller has taken the value get_metric returned
ReadReturn ==
    /\ pc = "idle"
    /\ read # NoRead
    /\ read' = NoRead
    /\ UNCHANGED <<available_columns, rows, pc, recompute, act, pos,
                   existing_metrics, new_metrics, outcome, raised, last_value, calc,
                   ordervars, famvars>>

NextEval ==
    \/ \E rc \in BOOLEAN : StartBatch(rc)
    \/ BeginActivity
    \/ SkipIneligible
    \/ SkipCached
    \/ SkipMissingDep
    \/ NotApplicable
    \/ Compute
    \/ EndActivity
    \/ Propagate
    \/ \E a \in Activities : \E m \in MetricNames : \E q \in BOOLEAN :
          \E c \in BOOLEAN : Read(a, m, q, c)
    \/ ReadReturn

SpecEval == InitEval /\ [][NextEval]_vars

(***************************************************************************)
(* MetricsCalculator.__init__ and MetricsCalculator.compute,               *)
(* calculate.py:104-159.  Activity.add_metric is called there and defined  *)
(* nowhere in the sources: it is taken to be the store of the persisted    *)
(* cache, put(activity_id, metric_name, value, structured).                *)
(***************************************************************************)
\* Metric.name, the display name (activity.py:261, metrics/athlete.py:55,
\* govss.py:150, zones.py:37 and 96)
DisplayName(m) ==
    CASE m = Sport -> "Sport"
      [] m = LactateThresholdHR -> "Lactate Threshold Heartrate"
      [] m = CV -> "Critical velocity"
      [] m = ZoneDefinitionsHR -> "heartrate zone definitions"
      [] m = ZonesHR -> "times in heartrate zones"

\* Python objects by type: a str and a row of the metrics table
PyStr(s) == [type |-> "str", id |-> s]
PyRow(r) == [type |-> "Metric", id |-> r.name]

\* x == y: objects of different types are not equal
PyEq(x, y) == x.type = y.type /\ x.id = y.id

\* metric.name not in retrieved, calculate.py:150, with
\* retrieved = [metric for metric in self.metrics], calculate.py:139
NameNotInRetrieved(m, retrieved) ==
    ~ \E r \in retrieved : PyEq(PyStr(DisplayName(m)), PyRow(r))

\* the condition of calculate.py:149-151 (the list recompute is empty)
ShouldCompute(m, retrieved, recompute_all, appl) ==
    appl /\ (NameNotInRetrieved(m, retrieved) \/ recompute_all)

\* self.activity.add_metric(name, value)
AddMetric(table, a, name, value, kind) ==
    IF kind = "float" THEN Merge(table, Row(a, name, value, None))
    ELSE Merge(table, Row(a, name, None, value))

\* the results of compute() that return, and the exceptions it can raise
\* under the try of calculate.py:147-155
CalcResults ==
    {res \in ComputeResults : res.kind \in {"float", "json"}}
        \cup [kind : {"raise"}, v : {"AssertionError", "KeyError"}]

\* the rows a batch run can have left for the cache-eligible metrics
CachedRows ==
    {Row(a, m, None, "dict") : a \in Activities,
                               m \in {n \in MetricNames : cache(n)}}

Tables ==
    {t \in SUBSET CachedRows :
        \A r1 \in t : \A r2 \in t :
            (r1.activity_id = r2.activity_id /\ r1.name = r2.name) => r1 = r2}

InitCalc ==
    /\ available_columns \in [Activities -> SUBSET SignalColumns]
    /\ rows \in {t \in Tables :
                    \A r \in t : HasNeededColumns(available_columns[r.activity_id],
                                                   r.name)}
    /\ pc = "idle"
    /\ recompute = FALSE
    /\ act = 0
    /\ pos = 0
    /\ existing_metrics = {}
    /\ new_metrics = <<>>
    /\ outcome = Pending
    /\ raised = "none"
    /\ last_value = NoValue
    /\ read = NoRead
    /\ calc = NoCalc
    /\ FamStart
    /\ OrderIdle

calcOthers == <<available_columns, pc, recompute, act, pos, existing_metrics,
                new_metrics, outcome, raised, last_value, read, ordervars, famvars>>

\* MetricsCalculator(activity, metrics, pre_ordered=True) is constructed
\* and compute() is entered with recompute_all False, or compute(True) is
\* called on it: calculate.py:104-146
CalcStart(a, ra) ==
    /\ calc.pc = "idle"
    /\ calc' = [pc |-> "loop", activity |-> a, k |-> 1,
                retrieved |-> ActivityMetrics(rows, a), recompute_all |-> ra,
                computed |-> <<>>, invoked |-> {}, exc |-> "none"]
    /\ UNCHANGED <<rows, calcOthers>>

CalcInLoop == calc.pc = "loop" /\ calc.k <= Len(metrics)

\* the condition of calculate.py:149-151 is false: the next metric
CalcSkip ==
    /\ CalcInLoop
    /\ \E own \in OwnPredicate(metrics[calc.k]) :
          ~ShouldCompute(metrics[calc.k], calc.retrieved, calc.recompute_all,
                         applicable(available_columns[calc.activity],
                                    metrics[calc.k], own))
    /\ calc' = [calc EXCEPT !.k = calc.k + 1]
    /\ UNCHANGED <<rows, calcOthers>>

\* calculate.py:152-156: compute() is invoked; its value is stored, the
\* AssertionError of a read of an undeclared metric is printed (exc keeps
\* it), any other exception leaves the calculator
CalcCompute ==
    /\ CalcInLoop
    /\ \E own \in OwnPredicate(metrics[calc.k]) :
          ShouldCompute(metrics[calc.k], calc.retrieved, calc.recompute_all,
                        applicable(available_columns[calc.activity],
                                   metrics[calc.k], own))
    /\ \E res \in CalcResults :
          LET m == metrics[calc.k]
              inv == calc.invoked \cup {m}
          IN IF res.kind # "raise"
             THEN /\ rows' = AddMetric(rows, calc.activity, DisplayName(m),
                                       res.v, res.kind)
                  /\ calc' = [calc EXCEPT !.k = calc.k + 1, !.invoked = inv,
                                          !.computed = Append(calc.computed,
                                                              DisplayName(m))]
             ELSE IF res.v = "AssertionError"
             THEN /\ \E d \in MetricNames :
                        MetricGetMetric(m, d) = "AssertionError"
                  /\ rows' = rows
                  /\ calc' = [calc EXCEPT !.k = calc.k + 1, !.invoked = inv,
                                          !.exc = "AssertionError"]
             ELSE /\ rows' = rows
                  /\ calc' = [calc EXCEPT !.pc = "error", !.invoked = inv,
                                          !.exc = res.v]
    /\ UNCHANGED calcOthers

\* the loop is left and compute() returns, calculate.py:157-159
CalcEnd ==
    /\ calc.pc = "loop"
    /\ calc.k > Len(metrics)
    /\ calc' = [calc EXCEPT !.pc = "done"]
    /\ UNCHANGED <<rows, calcOthers>>

NextCalc ==
    \/ \E a \in Activities : \E ra \in BOOLEAN : CalcStart(a, ra)
    \/ CalcSkip
    \/ CalcCompute
    \/ CalcEnd

SpecCalc == InitCalc /\ [][NextCalc]_vars

(***************************************************************************)
(* The claims about the evaluation.                                        *)
(***************************************************************************)
\* _update_metrics_for_activity is running or has just been left by an
\* exception: outcome tells what it did with the metrics of activity act
InActivity == pc \in {"activity", "aborted"}

\* the rows stored for a metric of an activity
Stored(a, m) == {r \in ActivityMetrics(rows, a) : r.name = m}

\* the batch run does not invoke compute for a metric that had a row
C6_Batch ==
    (InActivity /\ ~recompute) =>
        \A m \in existing_metrics : outcome[m] \notin Invoked

\* get_metric with query=True answers from the row and does not compute
C6_Read ==
    (read.how # "none" /\ read.query /\ Stored(read.activity, read.name) # {}) =>
        /\ read.how = "cache"
        /\ ~read.invoked
        /\ \E r \in Stored(read.activity, read.name) :
              read.value = (IF r.value # None THEN r.value ELSE r.json_value)

\* MetricsCalculator.compute does not invoke compute for a metric that had
\* a row and leaves the row as it was
C6_Calculator ==
    (calc.pc # "idle" /\ ~calc.recompute_all) =>
        \A r \in calc.retrieved : r.name \notin calc.invoked /\ r \in rows

C8_DependentSkipped ==
    InActivity =>
        \A m \in MetricNames : \A n \in 1..Len(HardDeps(m)) :
            (cache(HardDeps(m)[n])
               /\ outcome[HardDeps(m)[n]] \in
                      {"not_applicable", "failed", "missing_dep"}) =>
                outcome[m] \notin Invoked

\* C9: after compute raised TypeError, ValueError or KeyError the table
\* holds no row for the metric, so that the next run with recompute false
\* finds no name and attempts it again.
C9_FailureNotCached ==
    InActivity =>
        \A m \in MetricNames :
            outcome[m] = "failed" => Stored(act, m) = {}

\* C10 as amended: no row of a cache-ineligible metric is ever in the
\* table, the batch run never computes one, no read of one is answered
\* from a row, and a read with compute enabled invokes compute unless the
\* metric is not applicable to the activity.
C10_IneligibleNeverStored ==
    /\ \A r \in rows : r.name \notin CacheIneligible
    /\ InActivity =>
          \A m \in CacheIneligible : outcome[m] \in {"pending", "ineligible"}
    /\ (read.how # "none" /\ read.name \in CacheIneligible) =>
          /\ read.how # "cache"
          /\ read.compute =>
                /\ read.how \in {"computed", "raised", "not_applicable"}
                /\ read.invoked <=> read.how # "not_applicable"
                /\ read.name # CV => read.invoked

\* after a batch run has stored rows for an activity, a cache-ineligible
\* metric of it is read with query=True and computed
C10_Witness ==
    /\ read.how = "computed"
    /\ read.query
    /\ read.name = LactateThresholdHR
    /\ Stored(read.activity, Sport) # {}
    /\ Stored(read.activity, ZoneDefinitionsHR) # {}

\* C10 as stated: no row of a cache-ineligible metric is ever in the table
\* and every read of such a metric invokes its compute.
C10_EveryReadComputes ==
    /\ \A r \in rows : r.name \notin CacheIneligible
    /\ (read.how # "none" /\ read.name \in CacheIneligible) => read.invoked

\* the metric compute() was last invoked for in this activity
LastComputed == new_metrics[Len(new_metrics)]

\* the row that holds a returned value: the scalar or the structured
\* column, the other one null
Normalized(a, m, res) ==
    IF res.kind = "float" THEN Row(a, m, res.v, None) ELSE Row(a, m, None, res.v)

\* C11: in every state of the metrics table each (activity_id, name) has
\* at most one row, and no row has both value and json_value populated.
C11_OneRowOneRepresentation ==
    /\ \A r1 \in rows : \A r2 \in rows :
          (r1.activity_id = r2.activity_id /\ r1.name = r2.name) => r1 = r2
    /\ \A r \in rows : r.value = None \/ r.json_value = None

\* a run with recompute has computed a metric that had a row, and the
\* activity holds a scalar row and a structured row
C11_Witness ==
    /\ InActivity
    /\ recompute
    /\ new_metrics # <<>>
    /\ LastComputed \in existing_metrics
    /\ outcome[LastComputed] = "computed"
    /\ \E r \in ActivityMetrics(rows, act) : r.value # None
    /\ \E r \in ActivityMetrics(rows, act) : r.json_value # None

\* C12: when an exception outside the expected classes leaves the
\* evaluation of an activity, update_metrics goes on with the next
\* activity, or returns if it was the last one.
C12_BatchContinues ==
    [][pc = "aborted" =>
          IF act > 1 THEN pc' = "batch" /\ act' = act - 1 ELSE pc' = "idle"]_vars

\* a step in which the evaluation of an activity fails, or the failure
\* leaves update_metrics
FailureStep ==
    \/ pc' = "aborted"
    \/ pc = "aborted"
    \/ /\ InActivity
       /\ \E m \in MetricNames : outcome[m] # "failed" /\ outcome'[m] = "failed"

\* C13: a failure in the evaluation of one activity leaves the rows of the
\* activities processed before it in the batch as they were.
C13_EarlierRowsKept ==
    [][FailureStep =>
          \A a \in Activities :
              a > act => ActivityMetrics(rows', a) = ActivityMetrics(rows, a)]_vars

\* an exception has left the evaluation of an activity, and an activity
\* processed before it has rows
C13_Witness ==
    /\ pc = "aborted"
    /\ act < NumActivities
    /\ \E r \in rows : r.activity_id > act /\ r.value # None

\* C14: in a run with recompute true no metric is skipped for having a
\* row, and a metric whose compute returned has exactly one row, which
\* holds the value returned in this run.
C14_RecomputeOverwrites ==
    (InActivity /\ recompute) =>
        /\ \A m \in MetricNames : outcome[m] # "cached"
        /\ \A m \in MetricNames :
              outcome[m] = "computed" => Cardinality(Stored(act, m)) = 1
        /\ (new_metrics # <<>> /\ outcome[LastComputed] = "computed") =>
              Stored(act, LastComputed) = {Normalized(act, LastComputed, last_value)}

\* a run with recompute true has computed a scalar for a metric that had a
\* row, after a dependency of it was computed again too
C14_Witness ==
    /\ pc = "activity"
    /\ recompute
    /\ new_metrics # <<>>
    /\ LastComputed = ZoneDefinitionsHR
    /\ {Sport, ZoneDefinitionsHR} \subseteq existing_metrics
    /\ outcome[ZoneDefinitionsHR] = "computed"
    /\ last_value.kind = "float"

\* C15: a metric that is not applicable to the activity has no row, and a
\* metric whose compute returned None has a row with value and json_value
\* both null.
C15_AbsentOrNull ==
    InActivity =>
        /\ \A m \in MetricNames :
              outcome[m] = "not_applicable" => Stored(act, m) = {}
        /\ (new_metrics # <<>> /\ last_value.kind = "none") =>
              Stored(act, LastComputed) = {Row(act, LastComputed, None, None)}

\* in one activity the zone definitions are not applicable and have no
\* row, and the last compute() returned None
C15_Witness ==
    /\ pc = "activity"
    /\ pos > Len(metrics)
    /\ outcome[ZoneDefinitionsHR] = "not_applicable"
    /\ Stored(act, ZoneDefinitionsHR) = {}
    /\ last_value.kind = "none"
    /\ LastComputed = Sport
    /\ Stored(act, Sport) = {Row(act, Sport, None, None)}

\* C16: a result that does not coerce to a scalar (a dict, a tuple, a
\* string) is stored as json_value with value null and the evaluation goes
\* on; a result that coerces to a float is stored as value with json_value
\* null.
C16_ResultNormalized ==
    (InActivity /\ new_metrics # <<>>) =>
        /\ last_value.kind \in {"json", "str"} =>
              /\ pc # "aborted"
              /\ Stored(act, LastComputed) =
                     {Row(act, LastComputed, None, last_value.v)}
        /\ last_value.kind = "float" =>
              Stored(act, LastComputed) =
                  {Row(act, LastComputed, last_value.v, None)}

\* C17: a read of a metric that is in neither deps nor weak_deps raises
\* out of Metric.get_metric, and the exception leaves the loop of
\* MetricsCalculator.compute instead of being swallowed by it.
C17_UndeclaredReadPropagates ==
    calc.exc = "AssertionError" => calc.pc = "error"

(***************************************************************************)
(* Name resolution and enumeration, calculate.py:13-98.  A name is the     *)
(* sequence of its lexemes: a run of alphanumerics, a bracket, a comma, a  *)
(* quoted string, an integer, or any other text.  A class defined by a     *)
(* class statement is the object StaticClass(name).                        *)
(***************************************************************************)
Word(s) == [t |-> "word", s |-> s, n |-> 0]
Other(s) == [t |-> "other", s |-> s, n |-> 0]
LBracket == [t |-> "lb", s |-> "[", n |-> 0]
RBracket == [t |-> "rb", s |-> "]", n |-> 0]
Comma == [t |-> "comma", s |-> ",", n |-> 0]
Quoted(s) == [t |-> "qstr", s |-> s, n |-> 0]
IntLit(n) == [t |-> "int", s |-> "", n |-> n]

\* the parsed values: a str, an int
StrValue(s) == [t |-> "str", s |-> s, n |-> 0]
IntValue(n) == [t |-> "int", s |-> "", n |-> n]

StaticClass(n) == [family |-> "type", item |-> n, serial |-> 0, deps |-> <<>>]

\* cls.__subclasses__() of the classes the class statements define:
\* base.py:156, activity.py:258 and 474, metrics/athlete.py:9 and 54,
\* govss.py:149, pdm.py:95 and 166 (calculate.py:8 imports pdm, and line 10,
\* the import of zones, is a comment)
DirectSubclasses(c) ==
    CASE c = "Metric" -> {"ActivityMetric", "ConfiguredValueMetric"}
      [] c = "ActivityMetric" -> {"Sport", "RunningMetric", "Curve", "MeanMax"}
      [] c = "ConfiguredValueMetric" -> {"LactateThresholdHR", "CV"}
      [] c = "RunningMetric" -> {"CV"}
      [] OTHER -> {}

\* the families whose metaclass makes subclasses of the family, pdm.py:86-90
\* and 152-162
PdmFamilies == {"Curve", "MeanMax"}

RECURSIVE SubclassNames(_)
\* the class statements among _get_all_subclasses(cls), calculate.py:40-43
SubclassNames(c) ==
    DirectSubclasses(c) \cup UNION {SubclassNames(d) : d \in DirectSubclasses(c)}

\* _get_all_subclasses(base.Metric), calculate.py:40-43: every class
\* reachable through __subclasses__(), the classes type(...) made of a
\* family among them
_get_all_subclasses(hp) ==
    [computed |-> TRUE,
     classes |-> SubclassNames("Metric"),
     instances |-> [f \in Families |->
                       IF f \in SubclassNames("Metric") THEN hp[f] ELSE {}]]

\* get_all_metrics(), calculate.py:19-23
get_all_metrics(am, hp) ==
    IF ~am.computed THEN _get_all_subclasses(hp) ELSE am

\* get_metrics_map(), calculate.py:26-30, on the keys a class identifier can
\* equal: the __name__ of a class made by type(...) has brackets and quotes
get_metrics_map(am) == [n \in am.classes |-> StaticClass(n)]

\* the values of a delimited list of lexemes: add_parse_action
\* (calculate.py:52) adds remove_quotes to pp.python_quoted_string itself,
\* the object the list of fields is built from too (calculate.py:65)
Values(toks) ==
    [k \in 1..((Len(toks) + 1) \div 2) |->
        LET tok == toks[2 * k - 1]
        IN IF tok.t = "int" THEN IntValue(tok.n) ELSE StrValue(tok.s)]

\* pp.delimited_list(quoted string | real | integer, ",") matches all of toks
IsDelimitedList(toks) ==
    /\ Len(toks) % 2 = 1
    /\ \A k \in 1..Len(toks) :
          IF k % 2 = 1 THEN toks[k].t \in {"qstr", "int"}
          ELSE toks[k].t = "comma"

\* an element of the parse result: a literal, or the list of a Group
Literal(s) == [group |-> FALSE, s |-> s, items |-> <<>>]
Grouped(vs) == [group |-> TRUE, s |-> "", items |-> vs]

\* pp.Opt("[" + pp.Opt(pp.Group(list)) + "]") at position p of name,
\* calculate.py:48-60 and 61-73: the elements it adds and where it stops
BracketGroup(name, p) ==
    LET closing == {q \in (p + 1)..Len(name) : name[q].t = "rb"}
        none == [out |-> <<>>, next |-> p]
    IN IF p > Len(name) \/ name[p].t # "lb" \/ closing = {} THEN none
       ELSE LET q == CHOOSE x \in closing : \A y \in closing : x <= y
                inner == SubSeq(name, p + 1, q - 1)
            IN IF inner = <<>>
               THEN [out |-> <<Literal("["), Literal("]")>>, next |-> q + 1]
               ELSE IF IsDelimitedList(inner)
               THEN [out |-> <<Literal("["), Grouped(Values(inner)),
                               Literal("]")>>,
                     next |-> q + 1]
               ELSE none

\* metric_name_grammar on the whole of name, calculate.py:46-74: the flat
\* result list, or no match (matches() parses with parse_all)
ParseString(name) ==
    IF name = <<>> \/ name[1].t # "word" THEN [ok |-> FALSE, res |-> <<>>]
    ELSE LET g1 == BracketGroup(name, 2)
             g2 == BracketGroup(name, g1.next)
         IN [ok |-> g2.next = Len(name) + 1,
             res |-> <<Literal(name[1].s)>> \o g1.out \o g2.out]

\* the names resolved: a class identifier, an optional argument group and
\* an optional field group
Absent == [present |-> FALSE, items |-> <<>>]
Brackets(items) == [present |-> TRUE, items |-> items]

Separated(items) ==
    [k \in 1..(2 * Len(items) - 1) |->
        IF k % 2 = 1 THEN items[(k + 1) \div 2] ELSE Comma]

Lexemes(g) ==
    IF ~g.present THEN <<>>
    ELSE IF g.items = <<>> THEN <<LBracket, RBracket>>
    ELSE <<LBracket>> \o Separated(g.items) \o <<RBracket>>

NameOf(cls, g1, g2) == <<Word(cls)>> \o Lexemes(g1) \o Lexemes(g2)

\* the argument tuples a family is subscripted with: a column for Curve
\* (pdm.py:82-92), a column and a time for MeanMax (pdm.py:145-163)
FamilyArgs(f) ==
    IF f = "Curve" THEN {<<Quoted(c)>> : c \in {"power", ""}}
    ELSE {<<Quoted(c), IntLit(d)>> : c \in {"power"}, d \in {60}}

FieldGroups == {Absent, Brackets(<<>>), Brackets(<<Quoted("pt")>>)}

\* identifiers: classes that are defined, a family that is not imported, a
\* name no class has
Identifiers == {"Sport", "Curve", "MeanMax", "Zones", "Nope"}

ArgGroups(cls) ==
    IF cls \in PdmFamilies
    THEN {Absent} \cup {Brackets(a) : a \in FamilyArgs(cls)}
             \cup (IF cls = "Curve" THEN {Brackets(<<>>)} ELSE {})
    ELSE {Absent, Brackets(<<>>), Brackets(<<Quoted("power")>>)}

\* a name with an underscore, which Word(alphanums) does not match
BadName == <<Word("Bad"), Other("_"), Word("Name")>>

\* the items the families are subscripted with when a class is handed to
\* Activity.get_metric
ProducedItems(f) ==
    CASE f = "Curve" -> {"power", ""}
      [] f = "MeanMax" -> {<<"power", 60>>}
      [] f = "ZoneDefinitions" -> {"power"}
      [] f = "Zones" -> {"power"}
      [] f = "TimeInZone" -> {<<"power", "Z1">>}

\* the __name__ the family gives the class of an item: f'Curve["{column}"]'
\* (pdm.py:87), f'MeanMax["{column}", {time}]' (pdm.py:153),
\* f'ZoneDefinitions["{column}"]' (zones.py:32), f'Zones["{column}"]'
\* (zones.py:91), f'TimeInZone["{column}", {zone}]' (zones.py:139)
ClassName(f, item) ==
    <<Word(f), LBracket>> \o
    (CASE f = "MeanMax" -> <<Quoted(item[1]), Comma, IntLit(item[2])>>
       [] f = "TimeInZone" -> <<Quoted(item[1]), Comma, Word(item[2])>>
       [] OTHER -> <<Quoted(item)>>) \o
    <<RBracket>>

ProducedNames ==
    UNION {{ClassName(f, item) : item \in ProducedItems(f)} : f \in Families}

Names ==
    {BadName} \cup ProducedNames \cup
    UNION {UNION {{NameOf(cls, g1, g2) :
                      g2 \in IF g1 = Absent THEN {Absent} ELSE FieldGroups} :
                  g1 \in ArgGroups(cls)} :
           cls \in Identifiers}

\* the parse of each of the names
ParseTable == [name \in Names |-> ParseString(name)]

\* [arg for arg in x]: the items of a Group, the characters of a literal
Iterate(x) == IF x.group THEN x.items ELSE <<StrValue(x.s)>>

\* the key of metric[args[0]] and of metric[*args]
PyValue(v) == IF v.t = "int" THEN v.n ELSE v.s
ToItem(args) ==
    IF Len(args) = 1 THEN PyValue(args[1])
    ELSE [k \in 1..Len(args) |-> PyValue(args[k])]

\* parse_metric_string(name), calculate.py:77-98, with the metaclass dicts
\* st it reads and writes
parse_metric_string(st, am, name) ==
    LET p == ParseTable[name]
        res == p.res
        map == get_metrics_map(am)
        answer(status, metric, fields, st1) ==
            [status |-> status, metric |-> metric, fields |-> fields,
             classes |-> st1.classes, heap |-> st1.heap]
    IN IF ~p.ok THEN answer("returned", NoClass, <<>>, st)
       ELSE IF res[1].s \notin DOMAIN map
       THEN answer("KeyError", NoClass, <<>>, st)
       ELSE LET metric == map[res[1].s]
            IN IF Len(res) < 4 THEN answer("returned", metric, <<>>, st)
               ELSE LET args == Iterate(res[3])
                        fields == IF Len(res) = 7 THEN Iterate(res[6])
                                  ELSE <<>>
                    IN IF Len(args) = 1 /\ args[1] = StrValue("")
                       THEN answer("returned", metric, fields, st)
                       ELSE IF metric.item \notin PdmFamilies
                       THEN \* a class without __getitem__: TypeError
                            answer("returned", metric, args, st)
                       ELSE LET st1 == GetItem(st, metric.item, ToItem(args))
                            IN answer("returned", st1.obj, fields, st1)

\* if metric is None: logger.error(...); return, db/schemas.py:207-209
NoneLogged(r) ==
    IF r.status = "returned" /\ r.metric = NoClass
    THEN [r EXCEPT !.status = "returned None"]
    ELSE IF r.status = "returned" THEN [r EXCEPT !.status = "resolved"]
    ELSE r

\* the classes made by a family that get_metrics_map() holds under the key
\* name: the enumeration holds those made before its first call, and a
\* family makes one class for an item
MapInstances(am, name) ==
    UNION {{o \in am.instances[f] : ClassName(f, o.item) = name} :
           f \in Families}

\* the resolution of Activity.get_metric, db/schemas.py:201-209: the class
\* compute() is taken from, or None after the error is logged
ActivityResolve(st, am, name) ==
    LET map == get_metrics_map(am)
        made == MapInstances(am, name)
    IN IF Len(name) = 1 /\ name[1].t = "word" /\ name[1].s \in DOMAIN map
       THEN [status |-> "resolved", metric |-> map[name[1].s],
             fields |-> <<>>, classes |-> st.classes, heap |-> st.heap]
       ELSE IF made # {}
       THEN [status |-> "resolved", metric |-> CHOOSE o \in made : TRUE,
             fields |-> <<>>, classes |-> st.classes, heap |-> st.heap]
       ELSE NoneLogged(parse_metric_string(st, am, name))

\* the Python values of the arguments written in a subscript
ArgValues(args) == Values(Separated(args))

resolveOthers == <<ret, last_item, answered, computevars, ordervars, evalvars>>

InitResolve == FamStart /\ OrderIdle /\ EvalIdle

\* a call of get_all_metrics(): the first one is line 101 of calculate.py,
\* run when the module is imported
GetAllMetrics ==
    /\ all_metrics' = get_all_metrics(all_metrics, heap)
    /\ parsed' = [NoParse EXCEPT !.call = "get_all_metrics"]
    /\ UNCHANGED <<classes, heap, resolveOthers>>

\* Family[args] written out in the program; pdm.py can be imported, and a
\* family subscripted, before calculate.py is
Subscript(f, args) ==
    LET st == GetItem([classes |-> classes, heap |-> heap, obj |-> NoClass,
                       how |-> "none"], f, ToItem(ArgValues(args)))
    IN /\ classes' = st.classes
       /\ heap' = st.heap
       /\ parsed' = [call |-> "getitem",
                     name |-> NameOf(f, Brackets(args), Absent),
                     status |-> "returned", metric |-> st.obj, fields |-> <<>>]
       /\ UNCHANGED <<all_metrics, resolveOthers>>

\* a call of parse_metric_string (athlete.py:90 and 166); calculate.py is
\* imported, so all_metrics is set
ParseMetricString(name) ==
    /\ all_metrics.computed
    /\ \E r \in {parse_metric_string([classes |-> classes, heap |-> heap,
                                       obj |-> NoClass, how |-> "none"],
                                      all_metrics, name)} :
          /\ classes' = r.classes
          /\ heap' = r.heap
          /\ parsed' = [call |-> "parse_metric_string", name |-> name,
                        status |-> r.status, metric |-> r.metric,
                        fields |-> r.fields]
    /\ UNCHANGED <<all_metrics, resolveOthers>>

\* Activity.get_metric(name) of a name that has no row, up to the class it
\* resolves to (db/schemas.py:201-209)
ActivityGetMetric(name) ==
    /\ all_metrics.computed
    /\ \E r \in {ActivityResolve([classes |-> classes, heap |-> heap,
                                   obj |-> NoClass, how |-> "none"],
                                  all_metrics, name)} :
          /\ classes' = r.classes
          /\ heap' = r.heap
          /\ parsed' = [call |-> "Activity.get_metric", name |-> name,
                        status |-> r.status, metric |-> r.metric,
                        fields |-> r.fields]
    /\ UNCHANGED <<all_metrics, resolveOthers>>

\* Activity.get_metric(Family[item]) of a class that has no row: the class
\* is made or found, its __name__ taken (db/schemas.py:190-191) and resolved
GetMetricOfClass(f, item) ==
    /\ all_metrics.computed
    /\ \E st \in {GetItem([classes |-> classes, heap |-> heap, obj |-> NoClass,
                            how |-> "none"], f, item)} :
       \E r \in {ActivityResolve(st, all_metrics, ClassName(f, item))} :
          /\ classes' = r.classes
          /\ heap' = r.heap
          /\ ret' = st.obj
          /\ parsed' = [call |-> "Activity.get_metric(class)",
                        name |-> ClassName(f, item), status |-> r.status,
                        metric |-> r.metric, fields |-> r.fields]
    /\ UNCHANGED <<all_metrics, last_item, answered, computevars, ordervars,
                   evalvars>>

NextResolve ==
    \/ GetAllMetrics
    \/ \E f \in Families : \E item \in ProducedItems(f) : GetMetricOfClass(f, item)
    \/ \E f \in PdmFamilies : \E args \in FamilyArgs(f) : Subscript(f, args)
    \/ \E name \in Names : ParseMetricString(name)
    \/ \E name \in Names : ActivityGetMetric(name)

SpecResolve == InitResolve /\ [][NextResolve]_vars

(***************************************************************************)
(* The claims about name resolution and enumeration.                       *)
(***************************************************************************)
\* the name's class identifier is a class the map has
Registered(name) ==
    /\ name # <<>>
    /\ name[1].t = "word"
    /\ (Len(name) > 1 => name[2].t = "lb")
    /\ name[1].s \in SubclassNames("Metric")

\* two class objects are one object
SameObject(a, b) ==
    /\ a.family = b.family
    /\ a.family # "none"
    /\ a.item = b.item
    /\ a.serial = b.serial

\* C18: resolving a name whose identifier is not a registered definition
\* fails with UnknownMetricError; no definition and no empty result is
\* returned.
C18_UnknownFails ==
    (parsed.call \in {"parse_metric_string", "Activity.get_metric"}
        /\ ~Registered(parsed.name)) =>
        parsed.status = "UnknownMetricError"

\* C19: parse_metric_string of Family[args], with or without a trailing
\* empty field group, returns the class object Family[args] gives, and an
\* empty field path.
C19_ParseRoundTrip ==
    \A f \in PdmFamilies : \A args \in FamilyArgs(f) :
        \A g2 \in {Absent, Brackets(<<>>)} :
            (parsed.call = "parse_metric_string"
                /\ parsed.name = NameOf(f, Brackets(args), g2)) =>
                /\ parsed.status = "returned"
                /\ parsed.fields = <<>>
                /\ SameObject(parsed.metric,
                              GetItem([classes |-> classes, heap |-> heap,
                                       obj |-> NoClass, how |-> "none"],
                                      f, ToItem(ArgValues(args))).obj)

\* C20: the set get_all_metrics() returns holds no class made by
\* subscripting a family.
C20_NoFamilyInstanceEnumerated ==
    all_metrics.computed => \A f \in Families : all_metrics.instances[f] = {}

(***************************************************************************)
(* The zones: ZoneDefinitions.compute and Zones.compute, zones.py:50-76    *)
(* and 110-123.  A boundary is held in hundredths, so that                 *)
(* np.array(bins) * base / 100 is exact.  A sample of the signal is        *)
(* [valid, v]: a missing sample (NaN) is not valid.                        *)
(***************************************************************************)
\* the samples of the series Zones.compute is given
MaxSamples == 2

\* the base of the heartrate zones, zones.py:63
HeartrateBase == 175

\* the percentages, zones.py:64 and 69, and the labels, zones.py:65 and 70
HeartrateBins == <<0, 65, 80, 89, 95, 100, 114>>
HeartrateLabels == <<"Z0", "Z1", "Z2", "Z3", "Z4", "Z5">>
PowerBins == <<0, 54, 74, 89, 103, 128, 157>>
PowerLabels == <<"Z1", "Z2", "Z3", "Z4", "Z5", "Z6">>

\* the signals a ZoneDefinitions class is made for, and the values of the
\* athlete's thresholds
ZoneColumns == {"heartrate", "power", "speed"}
LTHRValues == {150, 175}
FTPValues == {200, 250}

Missing == [valid |-> FALSE, v |-> 0]
Sample(v) == [valid |-> TRUE, v |-> v]
Samples == {Missing} \cup {Sample(v) : v \in {0, 120, 180, 250}}

\* the names bound in this module: FTP is (zones.py:11), CyclingFTP is not
ModuleNames == {"Sport", "LactateThresholdHR", "FTP", "ActivityMetric"}

\* ZoneDefinitions.compute, zones.py:58-76, for the column of the class and
\* the values self.get_metric gives for the athlete's thresholds
ZoneDefinitionsCompute(column, lthr, ftp) ==
    IF column = "heartrate"
    THEN [status |-> "returned",
          bins |-> [k \in 1..Len(HeartrateBins) |->
                       HeartrateBins[k] * HeartrateBase],
          labels |-> HeartrateLabels]
    ELSE IF column = "power"
    THEN IF "CyclingFTP" \in ModuleNames
         THEN [status |-> "returned",
               bins |-> [k \in 1..Len(PowerBins) |-> PowerBins[k] * ftp],
               labels |-> PowerLabels]
         ELSE [status |-> "NameError"]
    ELSE \* mode stays "fixed": bins and labels are not assigned at the assert
         [status |-> "UnboundLocalError"]

RECURSIVE SumSeq(_)
SumSeq(q) == IF q = <<>> THEN 0 ELSE q[1] + SumSeq(Tail(q))

\* pandas.cut(series, bins, labels) and the count of each label, which
\* Series.sweat.time_in_zone(bins, labels) returns (zones.py:121-123): a
\* sample is in (bins[k], bins[k+1]] (or [bins[k], bins[k+1]) with right
\* false), and a sample in no interval is in no zone
TimeInZones(series, bins, right) ==
    [k \in 1..(Len(bins) - 1) |->
        Cardinality({n \in 1..Len(series) :
            /\ series[n].valid
            /\ IF right
               THEN bins[k] < 100 * series[n].v /\ 100 * series[n].v <= bins[k + 1]
               ELSE bins[k] <= 100 * series[n].v /\ 100 * series[n].v < bins[k + 1]})]

\* Zones.compute, zones.py:118-123
ZonesCompute(defs, series, right) ==
    IF defs.status # "returned" THEN [status |-> defs.status]
    ELSE [status |-> "returned", labels |-> defs.labels,
          times |-> TimeInZones(series, defs.bins, right)]

InitZones ==
    /\ OrderIdle
    /\ EvalIdle
    /\ classes = [f \in Families |-> <<>>]
    /\ heap = [f \in Families |-> {}]
    /\ ret = NoClass
    /\ last_item = <<"none", "none">>
    /\ answered = "none"
    /\ all_metrics = NoEnumeration
    /\ parsed = NoParse
    /\ uss = NoStress
    /\ curve = NoCurve
    /\ meanmaxes = NoMeanMaxes
    /\ frame = NoFrame
    /\ registry = NoRegistry
    /\ \E column \in ZoneColumns : \E lthr \in LTHRValues : \E ftp \in FTPValues :
       \E right \in BOOLEAN : \E series \in SeqsUpTo(Samples, MaxSamples) :
          zones = [NoZones EXCEPT !.pc = "start", !.column = column,
                                  !.lthr = lthr, !.ftp = ftp, !.right = right,
                                  !.series = series]

zonesOthers ==
    <<uss, curve, meanmaxes, frame, registry, classes, heap, ret, last_item, answered, all_metrics, parsed,
      ordervars, evalvars>>

\* ZoneDefinitions[column](activity).compute()
ComputeZoneDefinitions ==
    /\ zones.pc = "start"
    /\ zones' = [zones EXCEPT
                    !.pc = "defined",
                    !.defs = ZoneDefinitionsCompute(zones.column, zones.lthr,
                                                    zones.ftp)]
    /\ UNCHANGED zonesOthers

\* Zones[column](activity).compute()
ComputeZones ==
    /\ zones.pc = "defined"
    /\ zones' = [zones EXCEPT
                    !.pc = "timed",
                    !.times = ZonesCompute(zones.defs, zones.series,
                                           zones.right)]
    /\ UNCHANGED zonesOthers

NextZones == ComputeZoneDefinitions \/ ComputeZones

SpecZones == InitZones /\ [][NextZones]_vars

\* the value of the threshold dependency the class declares for the column,
\* zones.py:26-29
Threshold(z) == IF z.column = "heartrate" THEN z.lthr ELSE z.ftp

Percentages(column) == IF column = "heartrate" THEN HeartrateBins ELSE PowerBins

\* C21: for a signal with a threshold, ZoneDefinitions.compute returns
\* boundaries equal to threshold * percentage / 100, strictly increasing,
\* and one label fewer than boundaries.
C21_BoundariesFromThreshold ==
    (zones.pc # "start" /\ zones.column \in {"heartrate", "power"}) =>
        /\ zones.defs.status = "returned"
        /\ Len(zones.defs.bins) = Len(Percentages(zones.column))
        /\ \A k \in 1..Len(zones.defs.bins) :
              zones.defs.bins[k] = Threshold(zones) * Percentages(zones.column)[k]
        /\ \A k \in 1..(Len(zones.defs.bins) - 1) :
              zones.defs.bins[k] < zones.defs.bins[k + 1]
        /\ Len(zones.defs.labels) = Len(zones.defs.bins) - 1

\* C22: the boundaries follow the declared threshold dependency: the top
\* boundary is its percentage of the value of LactateThresholdHR for
\* heartrate and of the value of FTP for power.
C22_ThresholdIsTheDependency ==
    (zones.pc # "start" /\ zones.column \in {"heartrate", "power"}) =>
        /\ zones.defs.status = "returned"
        /\ LET top == Len(Percentages(zones.column))
           IN zones.defs.bins[top] =
                  Percentages(zones.column)[top] * Threshold(zones)

\* C23: the durations Zones.compute returns sum to the number of valid
\* samples of the series.
C23_ZonesCoverValidSamples ==
    (zones.pc = "timed" /\ zones.times.status = "returned") =>
        SumSeq(zones.times.times) =
            Cardinality({n \in 1..Len(zones.series) : zones.series[n].valid})

(***************************************************************************)
(* The weak dependencies: UniversalStressScore.compute, pmc.py:13-26, on   *)
(* one activity.  GOVSS is a RunningMetric and CogganTSS a CyclingMetric,  *)
(* so the sport of the activity says which of them is applicable.          *)
(***************************************************************************)
GOVSS == "GOVSS"
CogganTSS == "CogganTSS"

\* UniversalStressScore.weak_deps, pmc.py:18
StressWeakDeps == <<GOVSS, CogganTSS>>

Sports == {"running", "cycling", "swimming"}

\* RunningMetric.applicable and CyclingMetric.applicable, activity.py:479-493
\* and 501-515
SportApplicable(m, sport) ==
    IF m = GOVSS THEN sport = "running" ELSE sport = "cycling"

\* the rows the activity can have for the two weak dependencies
StressRows ==
    {Row(1, m, v, None) : m \in {GOVSS, CogganTSS}, v \in FloatValues \cup {None}}

StressTables ==
    {t \in SUBSET StressRows :
        \A r1 \in t : \A r2 \in t : r1.name = r2.name => r1 = r2}

\* what compute() of a weak dependency does when it is invoked
StressResults == {res \in ComputeResults : res.kind \in {"float", "none", "raise"}}

RECURSIVE StressLoop(_, _, _, _)
\* for dep in self.weak_deps: try: return self.get_metric(dep)
\* except KeyError: pass; then return 0 (pmc.py:21-26).  self.get_metric is
\* Activity.get_metric with compute and query true (base.py:73-74)
StressLoop(table, sport, res, k) ==
    IF k > Len(StressWeakDeps) THEN [kind |-> "float", v |-> "0"]
    ELSE LET dep == StressWeakDeps[k]
             got == GetMetric(table, {}, 1, dep, TRUE, TRUE,
                              SportApplicable(dep, sport), res[dep])
         IN IF got.how = "raised"
            THEN IF res[dep].v = "KeyError"
                 THEN StressLoop(table, sport, res, k + 1)
                 ELSE res[dep]
            ELSE IF got.value = None THEN [kind |-> "none", v |-> None]
            ELSE [kind |-> "float", v |-> got.value]

\* UniversalStressScore.compute, pmc.py:20-26
StressCompute(table, sport, res) == StressLoop(table, sport, res, 1)

InitStress ==
    /\ OrderIdle
    /\ EvalIdle
    /\ classes = [f \in Families |-> <<>>]
    /\ heap = [f \in Families |-> {}]
    /\ ret = NoClass
    /\ last_item = <<"none", "none">>
    /\ answered = "none"
    /\ all_metrics = NoEnumeration
    /\ parsed = NoParse
    /\ zones = NoZones
    /\ curve = NoCurve
    /\ meanmaxes = NoMeanMaxes
    /\ frame = NoFrame
    /\ registry = NoRegistry
    /\ \E sport \in Sports : \E table \in StressTables :
       \E g \in StressResults : \E c \in StressResults :
          uss = [NoStress EXCEPT !.pc = "start", !.sport = sport,
                                 !.table = table, !.govss = g, !.coggan = c]

stressOthers ==
    <<zones, curve, meanmaxes, frame, registry, classes, heap, ret, last_item, answered, all_metrics, parsed,
      ordervars, evalvars>>

\* UniversalStressScore(activity).compute()
ComputeStress ==
    /\ uss.pc = "start"
    /\ uss' = [uss EXCEPT
                  !.pc = "done",
                  !.result = StressCompute(uss.table, uss.sport,
                                           [m \in {GOVSS, CogganTSS} |->
                                               IF m = GOVSS THEN uss.govss
                                               ELSE uss.coggan])]
    /\ UNCHANGED stressOthers

NextStress == ComputeStress

SpecStress == InitStress /\ [][NextStress]_vars

\* the value a weak dependency yields on the activity: the value of its
\* row, or else the value its compute() returns when it is applicable;
\* None when it yields none
Yielded(u, m) ==
    LET stored == {r \in u.table : r.name = m}
        res == IF m = GOVSS THEN u.govss ELSE u.coggan
    IN IF stored # {} THEN (CHOOSE r \in stored : TRUE).value
       ELSE IF SportApplicable(m, u.sport) /\ res.kind = "float" THEN res.v
       ELSE None

\* C24: UniversalStressScore returns the value of GOVSS when GOVSS yields
\* one, and otherwise the value of CogganTSS when CogganTSS yields one.
C24_FirstYieldingWeakDep ==
    uss.pc = "done" =>
        IF Yielded(uss, GOVSS) # None
        THEN uss.result = [kind |-> "float", v |-> Yielded(uss, GOVSS)]
        ELSE Yielded(uss, CogganTSS) # None =>
                uss.result = [kind |-> "float", v |-> Yielded(uss, CogganTSS)]

(***************************************************************************)
(* The curve: Curve.compute, pdm.py:110-136.  fits gives, for each of the  *)
(* five models, what DurationRegressor(model=model).fit(X, y) does: "ok"   *)
(* or the exception it raises.                                             *)
(***************************************************************************)
\* the list of the for statement, pdm.py:123
CurveModels == <<"2 param", "3 param", "exponential", "omni", "pt">>

\* the params of _model_selection(): pdm.py:68-72 for "pt", the
\* PowerDurationRegressor of sweat for the others
ModelParams(model) ==
    CASE model = "2 param" -> {"cp", "w_prime"}
      [] model = "3 param" -> {"cp", "w_prime", "p_max"}
      [] model = "exponential" -> {"cp", "p_max", "tau"}
      [] model = "omni" -> {"cp", "w_prime", "p_max", "a"}
      [] model = "pt" -> {"cp", "w_prime", "tau", "tau2", "a"}

\* a fit converges, does not converge (RuntimeError), is given degenerate
\* values (ValueError), or is given fewer points than the model has
\* parameters (the TypeError of scipy.optimize.curve_fit)
FitOutcomes == {"ok", "RuntimeError", "ValueError", "TypeError"}

\* the except clauses of the loop body, pdm.py:132-135
CurveCaught == {"RuntimeError", "ValueError"}

\* rtn[model] = {param: getattr(model_instance, f"{param}_") ...}
WithEntry(rtn, model) ==
    [m \in DOMAIN rtn \cup {model} |->
        IF m = model THEN ModelParams(model) ELSE rtn[m]]

RECURSIVE CurveLoop(_, _, _)
\* the for statement of pdm.py:123-135 from its k-th model on
CurveLoop(fits, k, rtn) ==
    IF k > Len(CurveModels) THEN [status |-> "returned", rtn |-> rtn]
    ELSE IF fits[k] = "ok"
    THEN CurveLoop(fits, k + 1, WithEntry(rtn, CurveModels[k]))
    ELSE IF fits[k] \in CurveCaught THEN CurveLoop(fits, k + 1, rtn)
    ELSE [status |-> fits[k], rtn |-> <<>>]

\* Curve.compute, pdm.py:110-136
CurveCompute(fits) == CurveLoop(fits, 1, <<>>)

InitCurve ==
    /\ OrderIdle
    /\ EvalIdle
    /\ classes = [f \in Families |-> <<>>]
    /\ heap = [f \in Families |-> {}]
    /\ ret = NoClass
    /\ last_item = <<"none", "none">>
    /\ answered = "none"
    /\ all_metrics = NoEnumeration
    /\ parsed = NoParse
    /\ zones = NoZones
    /\ uss = NoStress
    /\ meanmaxes = NoMeanMaxes
    /\ frame = NoFrame
    /\ registry = NoRegistry
    /\ \E fits \in [1..Len(CurveModels) -> FitOutcomes] :
          curve = [NoCurve EXCEPT !.pc = "start", !.fits = fits]

curveOthers ==
    <<zones, uss, meanmaxes, frame, registry, classes, heap, ret, last_item, answered, all_metrics, parsed,
      ordervars, evalvars>>

\* Curve[column](activity).compute()
ComputeCurve ==
    /\ curve.pc = "start"
    /\ curve' = [curve EXCEPT !.pc = "done",
                              !.result = CurveCompute(curve.fits)]
    /\ UNCHANGED curveOthers

NextCurve == ComputeCurve

SpecCurve == InitCurve /\ [][NextCurve]_vars

\* C25: the result map of Curve.compute holds exactly the models whose fit
\* succeeded, each with all its parameters, whichever models fail.
C25_IndependentFits ==
    curve.pc = "done" =>
        /\ curve.result.status = "returned"
        /\ DOMAIN curve.result.rtn =
               {CurveModels[k] : k \in {n \in 1..Len(CurveModels) :
                                           curve.fits[n] = "ok"}}
        /\ \A m \in DOMAIN curve.result.rtn :
              curve.result.rtn[m] = ModelParams(m)

(***************************************************************************)
(* The mean-max stage: Athlete.update_db, athlete.py:246-309.  The table   *)
(* meanmaxes gives, for each (activity_id, duration), the number of rows   *)
(* with that key, so that the model can hold a key twice.                  *)
(***************************************************************************)
\* the most records an activity has
MaxRecords == 2

\* the most calls of update_db
MaxCalls == 2

\* the primary key of MeanMax, db/schemas.py:126-129
MeanMaxKeys == Activities \X (1..MaxRecords)

\* reversed(self.activities), athlete.py:262 and 331
ReversedActivities == [k \in 1..NumActivities |-> NumActivities + 1 - k]

RECURSIVE SumCounts(_, _)
\* the number of rows whose key is in keys
SumCounts(table, keys) ==
    IF keys = {} THEN 0
    ELSE LET k == CHOOSE x \in keys : TRUE
         IN table[k] + SumCounts(table, keys \ {k})

\* session.query(MeanMax).filter(MeanMax.activity_id == activity_id).count(),
\* athlete.py:265-267
MeanMaxCount(table, a) == SumCounts(table, {k \in MeanMaxKeys : k[1] = a})

\* the frame of athlete.py:293-300: a row for each duration of the activity
MeanMaxFrame(a, n) == {<<a, d>> : d \in 1..n}

\* df.to_sql(name="meanmaxes", if_exists="append"): the insert is one
\* transaction on the table Base.metadata.create_all made (athlete.py:42),
\* whose primary key is (activity_id, duration)
ToSqlAppendAnyKey(table, keys) ==
    [status |-> "ok",
     table |-> [k \in MeanMaxKeys |->
                   IF k \in keys THEN table[k] + 1 ELSE table[k]]]

ToSql(table, keys) ==
    IF \E k \in keys : table[k] > 0
    THEN [status |-> "IntegrityError", table |-> table]
    ELSE [status |-> "ok",
          table |-> [k \in MeanMaxKeys |->
                        IF k \in keys THEN table[k] + 1 ELSE table[k]]]

InitMeanMax ==
    /\ OrderIdle
    /\ EvalIdle
    /\ classes = [f \in Families |-> <<>>]
    /\ heap = [f \in Families |-> {}]
    /\ ret = NoClass
    /\ last_item = <<"none", "none">>
    /\ answered = "none"
    /\ all_metrics = NoEnumeration
    /\ parsed = NoParse
    /\ zones = NoZones
    /\ uss = NoStress
    /\ curve = NoCurve
    /\ frame = NoFrame
    /\ registry = NoRegistry
    /\ \E records \in [Activities -> 0..MaxRecords] :
          meanmaxes = [NoMeanMaxes EXCEPT !.records = records,
                                          !.table = [k \in MeanMaxKeys |-> 0]]

meanmaxOthers ==
    <<zones, uss, curve, frame, registry, classes, heap, ret, last_item, answered, all_metrics,
      parsed, ordervars, evalvars>>

\* an import or a reimport gives the activity its records, between two updates
ImportRecords ==
    /\ meanmaxes.pc = "idle"
    /\ \E a \in Activities : \E n \in 1..MaxRecords :
          /\ n # meanmaxes.records[a]
          /\ meanmaxes' = [meanmaxes EXCEPT !.records[a] = n]
    /\ UNCHANGED meanmaxOthers

\* update_db is called and enters update_meanmaxes, athlete.py:246-262
UpdateDb ==
    /\ meanmaxes.pc = "idle"
    /\ meanmaxes.calls < MaxCalls
    /\ \E r \in BOOLEAN :
          meanmaxes' = [meanmaxes EXCEPT !.pc = "meanmaxes", !.recompute = r,
                                         !.todo = ReversedActivities,
                                         !.staged = {}, !.evaluated = {},
                                         !.calls = @ + 1, !.raised = "none"]
    /\ UNCHANGED meanmaxOthers

\* one activity of the loop of update_meanmaxes, athlete.py:262-309
UpdateMeanMaxes ==
    /\ meanmaxes.pc = "meanmaxes"
    /\ meanmaxes.todo # <<>>
    /\ LET a == Head(meanmaxes.todo)
           passed == [meanmaxes EXCEPT !.todo = Tail(@), !.staged = @ \cup {a}]
       IN IF MeanMaxCount(meanmaxes.table, a) > 0 /\ ~meanmaxes.recompute
          THEN meanmaxes' = passed
          ELSE IF meanmaxes.records[a] = 0
          THEN meanmaxes' = passed
          ELSE \E r \in {ToSql(meanmaxes.table,
                               MeanMaxFrame(a, meanmaxes.records[a]))} :
                  IF r.status = "ok"
                  THEN meanmaxes' = [passed EXCEPT !.table = r.table]
                  ELSE meanmaxes' = [meanmaxes EXCEPT !.pc = "idle",
                                                      !.todo = <<>>,
                                                      !.raised = r.status]
    /\ UNCHANGED meanmaxOthers

\* update_meanmaxes returns and update_metrics begins, athlete.py:249 and 311
UpdateMeanMaxesReturn ==
    /\ meanmaxes.pc = "meanmaxes"
    /\ meanmaxes.todo = <<>>
    /\ meanmaxes' = [meanmaxes EXCEPT !.pc = "metrics",
                                      !.todo = ReversedActivities]
    /\ UNCHANGED meanmaxOthers

\* one activity of the loop of update_metrics, athlete.py:331-339
UpdateMetrics ==
    /\ meanmaxes.pc = "metrics"
    /\ meanmaxes.todo # <<>>
    /\ meanmaxes' = [meanmaxes EXCEPT !.todo = Tail(@),
                                      !.evaluated = @ \cup {Head(meanmaxes.todo)}]
    /\ UNCHANGED meanmaxOthers

\* update_metrics and update_db return
UpdateDbReturn ==
    /\ meanmaxes.pc = "metrics"
    /\ meanmaxes.todo = <<>>
    /\ meanmaxes' = [meanmaxes EXCEPT !.pc = "idle"]
    /\ UNCHANGED meanmaxOthers

NextMeanMax ==
    \/ ImportRecords
    \/ UpdateDb
    \/ UpdateMeanMaxes
    \/ UpdateMeanMaxesReturn
    \/ UpdateMetrics
    \/ UpdateDbReturn

SpecMeanMax == InitMeanMax /\ [][NextMeanMax]_vars

\* the mean-max stage has passed every activity before a metric is evaluated
StageBeforeMetrics ==
    meanmaxes.evaluated # {} => meanmaxes.staged = Activities

\* no key has two rows
OneRowPerKey == \A k \in MeanMaxKeys : meanmaxes.table[k] <= 1

\* an update without recompute adds no row to an activity that has rows
NoRowAddedToExisting ==
    \A a \in Activities :
        (/\ meanmaxes.pc = "meanmaxes"
         /\ ~meanmaxes.recompute
         /\ MeanMaxCount(meanmaxes.table, a) > 0)
        => \A d \in 1..MaxRecords :
              meanmaxes'.table[<<a, d>>] = meanmaxes.table[<<a, d>>]

\* C26: in update_db the mean-max stage passes every activity before any
\* metric is evaluated, an update without recompute adds no row to an activity
\* that already has mean-max rows, and no (activity_id, duration) ever has
\* more than one row.
C26_MeanMaxOncePerActivity ==
    /\ [](StageBeforeMetrics /\ OneRowPerKey)
    /\ [][NoRowAddedToExisting]_vars

\* a second update, without recompute, has evaluated the metrics of every
\* activity and an activity keeps the rows of the first update
C26_Witness ==
    /\ meanmaxes.calls = 2
    /\ ~meanmaxes.recompute
    /\ meanmaxes.evaluated = Activities
    /\ \E a \in Activities : MeanMaxCount(meanmaxes.table, a) = MaxRecords

(***************************************************************************)
(* The signal table: Activity.records_df, db/schemas.py:223-238, and       *)
(* LNP.compute, govss.py:42-111.  A frame gives for each column what it    *)
(* holds: nothing ("absent"), the imported signal ("recorded"), zeros      *)
(* ("zero") or values LNP.compute derived ("derived").                     *)
(***************************************************************************)
\* the columns an import can give the frame
ImportedColumns == {"distance", "altitude", "power", "speed", "heartrate"}

\* the columns LNP.compute assigns, govss.py:47-103
LNPColumns ==
    {"altitude", "distance_diff", "slope", "d_speed", "power", "power30"}

FrameColumns == ImportedColumns \cup LNPColumns

\* the columns of a frame
ColumnsOf(df) == {c \in FrameColumns : df[c] # "absent"}

\* df[column] = contents
SetColumn(df, column, contents) == [df EXCEPT ![column] = contents]

\* the property records_df: the frame is built once and the same object is
\* returned from then on, db/schemas.py:225-238
RecordsDf(cols) ==
    [c \in FrameColumns |-> IF c \in cols THEN "recorded" ELSE "absent"]

\* LNP.compute, govss.py:42-111, on the cached frame df; inputs is what
\* self.get_metric(Weight) and self.get_metric(Height) do, division what the
\* division of govss.py:56-59 does
LNPCompute(df, inputs, division) ==
    IF inputs # "ok" THEN [status |-> inputs, df |-> df]
    ELSE
    LET df1 == IF "altitude" \notin ColumnsOf(df)
               THEN SetColumn(df, "altitude", "zero") ELSE df
    IN IF "distance" \notin ColumnsOf(df1) THEN [status |-> "KeyError", df |-> df1]
       ELSE
       LET df2 == SetColumn(df1, "distance_diff", "derived")
           df3 == SetColumn(df2, "slope",
                            IF division = "TypeError" THEN "zero" ELSE "derived")
           df4 == SetColumn(df3, "d_speed", "derived")
           df5 == SetColumn(df4, "power", "derived")
           df6 == SetColumn(df5, "power30", "derived")
       IN [status |-> "returned", df |-> df6]

InitFrame ==
    /\ OrderIdle
    /\ EvalIdle
    /\ classes = [f \in Families |-> <<>>]
    /\ heap = [f \in Families |-> {}]
    /\ ret = NoClass
    /\ last_item = <<"none", "none">>
    /\ answered = "none"
    /\ all_metrics = NoEnumeration
    /\ parsed = NoParse
    /\ zones = NoZones
    /\ uss = NoStress
    /\ curve = NoCurve
    /\ meanmaxes = NoMeanMaxes
    /\ registry = NoRegistry
    /\ \E cols \in SUBSET ImportedColumns : \E inputs \in {"ok", "KeyError"} :
       \E division \in {"ok", "TypeError"} :
          frame = [NoFrame EXCEPT !.pc = "start",
                                  !.records_df = RecordsDf(cols),
                                  !.imported = RecordsDf(cols),
                                  !.deps = inputs, !.division = division]

frameOthers ==
    <<zones, uss, curve, meanmaxes, registry, classes, heap, ret, last_item,
      answered, all_metrics, parsed, ordervars, evalvars>>

\* LNP(activity, athlete).compute()
ComputeLNP ==
    /\ frame.pc = "start"
    /\ \E r \in {LNPCompute(frame.records_df, frame.deps, frame.division)} :
          frame' = [frame EXCEPT !.pc = "done", !.records_df = r.df,
                                 !.result = r.status]
    /\ UNCHANGED frameOthers

NextFrame == ComputeLNP

SpecFrame == InitFrame /\ [][NextFrame]_vars

\* C27: after a metric's compute the activity's records_df has the columns
\* and the values it had before.
C27_RecordsReadOnly ==
    frame.pc = "done" => frame.records_df = frame.imported

(***************************************************************************)
(* The definitions' dependency lists: Metric.deps, base.py:33-36, and      *)
(* Metric.add_dep, base.py:111-119.  A class statement that assigns deps   *)
(* makes a list object; a class without one finds, through its bases, the  *)
(* list object of the nearest base that has one.                           *)
(***************************************************************************)
\* the most calls of add_dep
MaxAddDeps == 2

\* the definitions observed
Definitions ==
    {"Sport", "TimerTime", "CyclingMetric", "CogganNP", "CyclingFTP",
     "CogganTSS", "Height", "Weight"}

\* the list objects, named by the class statement that makes them:
\* base.py:34, activity.py:499, coggan.py:58, metrics/athlete.py:12
ListObjects ==
    {"Metric.deps", "CyclingMetric.deps", "CogganTSS.deps",
     "ConfiguredValueMetric.deps"}

\* the list object the attribute deps of a definition, or of an instance of
\* it, refers to
DepsList(d) ==
    CASE d \in {"Sport", "TimerTime"} -> "Metric.deps"
      [] d \in {"CyclingMetric", "CogganNP", "CyclingFTP"} -> "CyclingMetric.deps"
      [] d = "CogganTSS" -> "CogganTSS.deps"
      [] d \in {"Height", "Weight"} -> "ConfiguredValueMetric.deps"

\* the lists as the class statements leave them
ImportedLists ==
    [l \in ListObjects |->
        CASE l = "Metric.deps" -> <<>>
          [] l = "CyclingMetric.deps" -> <<"Sport">>
          [] l = "CogganTSS.deps" ->
                 <<"Sport", "CogganNP", "CyclingFTP", "TimerTime">>
          [] l = "ConfiguredValueMetric.deps" -> <<"Sport">>]

\* d.deps
DepsOf(reg, d) == reg.lists[DepsList(d)]

\* the dependencies a caller passes to add_dep
AddedDeps == {"Sport", "TimerTime", "Weight"}

InitRegistry ==
    /\ OrderIdle
    /\ EvalIdle
    /\ classes = [f \in Families |-> <<>>]
    /\ heap = [f \in Families |-> {}]
    /\ ret = NoClass
    /\ last_item = <<"none", "none">>
    /\ answered = "none"
    /\ all_metrics = NoEnumeration
    /\ parsed = NoParse
    /\ zones = NoZones
    /\ uss = NoStress
    /\ curve = NoCurve
    /\ meanmaxes = NoMeanMaxes
    /\ frame = NoFrame
    /\ registry = [NoRegistry EXCEPT !.lists = ImportedLists]

registryOthers ==
    <<zones, uss, curve, meanmaxes, frame, classes, heap, ret, last_item,
      answered, all_metrics, parsed, ordervars, evalvars>>

\* d(activity, athlete).add_dep(dep): self.deps.append(dep), base.py:119
AddDep ==
    /\ registry.pc = "idle"
    /\ registry.calls < MaxAddDeps
    /\ \E d \in Definitions : \E dep \in AddedDeps :
          registry' = [registry EXCEPT !.lists[DepsList(d)] = Append(@, dep),
                                       !.calls = @ + 1, !.last = d]
    /\ UNCHANGED registryOthers

\* an evaluation begins: it reads the deps of the definitions
\* (athlete.py:356-369, base.py:73) and assigns none
EvaluationBegins ==
    /\ registry.pc = "idle"
    /\ registry' = [registry EXCEPT !.pc = "evaluating",
                                    !.before = registry.lists]
    /\ UNCHANGED registryOthers

\* the evaluation ends
EvaluationEnds ==
    /\ registry.pc = "evaluating"
    /\ registry' = [registry EXCEPT !.pc = "idle", !.before = <<>>]
    /\ UNCHANGED registryOthers

NextRegistry == AddDep \/ EvaluationBegins \/ EvaluationEnds

SpecRegistry == InitRegistry /\ [][NextRegistry]_vars

\* C28: add_dep on an instance of one definition changes the deps of no other
\* definition, and an evaluation leaves the deps of every definition as they
\* were.
C28_RegistryReadOnly ==
    [][/\ registry'.calls # registry.calls =>
             \A e \in Definitions \ {registry'.last} :
                 DepsOf(registry', e) = DepsOf(registry, e)
       /\ registry.pc = "evaluating" => registry'.lists = registry.before]_vars

(***************************************************************************)
(* The claims about the names of the classes a family makes.               *)
(***************************************************************************)
\* C29: Activity.get_metric handed a class d made by a family resolves
\* d.__name__ to d itself.
C29_ClassNameRoundTrip ==
    parsed.call = "Activity.get_metric(class)" =>
        /\ parsed.status = "resolved"
        /\ SameObject(parsed.metric, ret)

(***************************************************************************)
(* The termination of order_deps.  The interpreter runs a call to its end: *)
(* every step of the loop that can be taken is taken.                      *)
(***************************************************************************)
\* the step TopoSort takes, told by what it does to opc: where the loop has
\* ended, TopoSort is the one step order_deps can take
OrderReturns ==
    /\ opc = "loop"
    /\ i >= Len(desired_metrics)
    /\ opc' \in {"done", "error"}

SpecOrderLive ==
    SpecOrder /\ WF_vars(LoopStep) /\ WF_opc(OrderReturns)

\* what the loop appended to the caller's list
Appended ==
    SubSeq(desired_metrics, Len(requested) + 1, Len(desired_metrics))

\* the caller's list is the list passed, followed by each definition
\* reachable from it that it did not hold, once
ExtendedInPlace ==
    /\ Len(desired_metrics) >= Len(requested)
    /\ SubSeq(desired_metrics, 1, Len(requested)) = requested
    /\ Range(Appended) = Closure(Range(requested)) \ Range(requested)
    /\ Len(Appended) = Cardinality(Range(Appended))

\* C30: order_deps ends, in a returned list or in CycleError, over every
\* dependency graph, and when it has ended the caller's list is the list
\* passed followed by every newly discovered dependency, each once.
C30_TerminatesExtendingInPlace ==
    /\ (opc = "loop") ~> (opc \in {"done", "error"})
    /\ [](opc \in {"done", "error"} => ExtendedInPlace)

\* a call over a cycle has ended: the list passed, with a repetition, is the
\* prefix of the caller's list and a dependency follows it
C30_Witness ==
    /\ opc = "error"
    /\ Len(requested) = 2
    /\ requested[1] = requested[2]
    /\ Len(desired_metrics) > Len(requested)

=============================================================================
